---- MODULE Spec2Model ----
(***************************************************************************)
(* A model of the core of rust-nbe-for-mltt: the metavariable environment  *)
(* (mltt-core/src/meta.rs), the type checking context and the              *)
(* bidirectional validator (mltt-core/src/validate.rs), the source files   *)
(* (mltt-span/src/file.rs) and the lexer (mltt-parse/src/lexer.rs).        *)
(*                                                                         *)
(* Rust values are modelled as records carrying a "tag" field naming the   *)
(* enum variant.  Result<T, E> is [tag |-> "Ok", val |-> t] or             *)
(* [tag |-> "Err", err |-> e]; Option<T> is [tag |-> "Some", some |-> t]   *)
(* or [tag |-> "None"].                                                    *)
(***************************************************************************)
EXTENDS Integers, Sequences, FiniteSets, TLC

VARIABLES
    solutions,   \* meta::Env::solutions : Vec<(FileSpan, Solution<Solved>)>
    metaCall,    \* the last call made on the metavariable environment
    metaPanic,   \* "none", or the message of the panic that ended the program
    ctx,         \* validate::Context : prims, values, tys
    call,        \* the call in progress on the context, the validator or the
                 \* files, with its arguments and its result; [op |-> "none"]
                 \* between calls
    files,       \* mltt_span::Files::files : Vec<File>
    lexer,       \* mltt_parse::lexer::Lexer : the file and the lookahead, or
                 \* [tag |-> "None"] when no lexer has been made
    lexed        \* what the lexer's iterator has returned so far, in order

metaVars == <<solutions, metaCall, metaPanic>>
checkVars == <<ctx, call>>
sourceVars == <<files, lexer, lexed>>

vars == <<solutions, metaCall, metaPanic, ctx, call, files, lexer, lexed>>

(***************************************************************************)
(* Bounds                                                                  *)
(***************************************************************************)
\* The largest number of metavariable slots allocated in a run.
MaxSlots == 3

\* The largest number of entries added to a context by add_defn and add_param.
MaxEntries == 3

\* The largest universe level among the inputs.
MaxLevel == 2

\* The largest number of entries added to a context before the validator is
\* called in it.
MaxScope == 2

\* The largest number of clauses of a literal elimination among the inputs.
MaxClauses == 3

\* The entries bound in a context before the validator is called on
\* variables, applications and projections.
MaxBound == 2

\* The largest number of items of a module among the inputs.
MaxItems == 3

\* The length of the longest source the lexer is given of all the sources
\* over its alphabet.
MaxChars == 3

\* The length of the longest source added to the files.
MaxSource == 4

\* The file spans and solutions the callers pass in (opaque to the code).
Spans == {"span1", "span2"}
SolvedValues == {"v1", "v2"}

\* `len as u32`, the cast of a usize to the u32 of meta::Index.  The cast is
\* the identity below 2^32; the model checker's integers end at 2^31 - 1, so
\* every length the model can hold is left as it is.
AsU32(n) == n

(***************************************************************************)
(* Option and Result                                                       *)
(***************************************************************************)
None == [tag |-> "None"]
Some(x) == [tag |-> "Some", some |-> x]
Ok(x) == [tag |-> "Ok", val |-> x]
Err(e) == [tag |-> "Err", err |-> e]
Unit == [tag |-> "Unit"]
IsOk(r) == r.tag = "Ok"
IsErr(r) == r.tag = "Err"

\* Vec::get / im::Vector::get: the element at a zero-based index, if any.
Get(vec, i) == IF i >= 0 /\ i < Len(vec) THEN Some(vec[i + 1]) ELSE None

\* im::Vector::push_front
PushFront(vec, x) == <<x>> \o vec

(***************************************************************************)
(* meta.rs: the metavariable environment                                   *)
(***************************************************************************)
Unsolved == [tag |-> "Unsolved"]
Solved(v) == [tag |-> "Solved", solved |-> v]

\* Env::new
MetaEnvNew == <<>>

\* Env::lookup_solution
lookup_solution(sols, index) == Get(sols, index)

\* Env::add_solved with the check of the slot's state left out: a mutant.
add_solved_overwrite(sols, index, solved) ==
    IF index < Len(sols)
    THEN [sols |-> [sols EXCEPT ![index + 1] = <<sols[index + 1][1], Solved(solved)>>],
          panic |-> "none"]
    ELSE [sols |-> sols, panic |-> "no corresponding solution"]

\* Env::add_solved: the environment after the call, and the panic it raised.
add_solved(sols, index, solved) ==
    LET slot == Get(sols, index) IN
    IF slot.tag = "None"
    THEN [sols |-> sols, panic |-> "no corresponding solution"]
    ELSE IF slot.some[2].tag = "Unsolved"
    THEN [sols |-> [sols EXCEPT ![index + 1] = <<slot.some[1], Solved(solved)>>],
          panic |-> "none"]
    ELSE [sols |-> sols, panic |-> "updating solved solution"]

\* Env::add_unsolved that hands out the index of the last slot: a mutant.
add_unsolved_stale(sols, span) ==
    [index |-> IF Len(sols) = 0 THEN 0 ELSE AsU32(Len(sols) - 1),
     sols |-> Append(sols, <<span, Unsolved>>)]

\* Env::add_unsolved: the fresh index and the environment after the call.
add_unsolved(sols, span) ==
    [index |-> AsU32(Len(sols)),
     sols |-> Append(sols, <<span, Unsolved>>)]

(***************************************************************************)
(* Core syntax (spec section 3): terms with de Bruijn indices              *)
(***************************************************************************)
\* AppMode
Explicit == [tag |-> "Explicit"]
Implicit(name) == [tag |-> "Implicit", name |-> name]
Instance(name) == [tag |-> "Instance", name |-> name]

\* LiteralType, in the order of the variants of synth_literal.
LiteralTypes ==
    <<"String", "Char", "Bool", "U8", "U16", "U32", "U64",
      "S8", "S16", "S32", "S64", "F32", "F64">>

\* The position of a literal kind among the variants.
KindRank(kind) == CHOOSE i \in 1..Len(LiteralTypes) : LiteralTypes[i] = kind

\* LiteralIntro: a kind and its payload.  Every payload is held as the
\* sequence of numbers that orders it: a string as its bytes, a char, a bool
\* (false 0, true 1) or an integer as one number, and a float as the fields
\* of its bit pattern from the most significant down: sign, exponent,
\* mantissa.
Literal(kind, payload) == [kind |-> kind, payload |-> payload]
LitBool(b) == Literal("Bool", <<IF b THEN 1 ELSE 0>>)
LitU8(n) == Literal("U8", <<n>>)
LitF32(sign, exponent, mantissa) == Literal("F32", <<sign, exponent, mantissa>>)

\* Term
Var(index) == [tag |-> "Var", index |-> index]
Prim(name) == [tag |-> "Prim", name |-> name]
Let(def, def_ty, body) == [tag |-> "Let", def |-> def, def_ty |-> def_ty, body |-> body]
LiteralType(lit_ty) == [tag |-> "LiteralType", lit_ty |-> lit_ty]
LiteralIntro(lit) == [tag |-> "LiteralIntro", lit |-> lit]
\* clauses: a sequence of <<literal, body>>
LiteralElim(scrutinee, clauses, default_body) ==
    [tag |-> "LiteralElim", scrutinee |-> scrutinee, clauses |-> clauses,
     default_body |-> default_body]
FunType(mode, param_ty, body_ty) ==
    [tag |-> "FunType", mode |-> mode, param_ty |-> param_ty, body_ty |-> body_ty]
FunIntro(mode, body) == [tag |-> "FunIntro", mode |-> mode, body |-> body]
FunElim(fun, mode, arg) == [tag |-> "FunElim", fun |-> fun, mode |-> mode, arg |-> arg]
\* ty_fields: a sequence of <<doc, label, type>>
RecordType(ty_fields) == [tag |-> "RecordType", ty_fields |-> ty_fields]
\* intro_fields: a sequence of <<label, term>>
RecordIntro(intro_fields) == [tag |-> "RecordIntro", intro_fields |-> intro_fields]
RecordElim(record, label) == [tag |-> "RecordElim", record |-> record, label |-> label]
Universe(level) == [tag |-> "Universe", level |-> level]

(***************************************************************************)
(* Value domain (spec section 3): weak head normal forms, de Bruijn levels *)
(***************************************************************************)
Closure(term, env) == [term |-> term, env |-> env]

\* Neutral
NVar(level) == [tag |-> "NVar", level |-> level]
NPrim(name) == [tag |-> "NPrim", name |-> name]
NFunApp(head, mode, arg) == [tag |-> "NFunApp", head |-> head, mode |-> mode, varg |-> arg]
NRecordProj(head, label) == [tag |-> "NRecordProj", head |-> head, label |-> label]
\* vclauses: a sequence of <<literal, value>>
NLiteralElim(head, vclauses, vdefault) ==
    [tag |-> "NLiteralElim", head |-> head, vclauses |-> vclauses, vdefault |-> vdefault]

\* Value
VNeutral(neutral) == [tag |-> "Neutral", neutral |-> neutral]
VLiteralType(lit_ty) == [tag |-> "LiteralType", lit_ty |-> lit_ty]
VLiteralIntro(lit) == [tag |-> "LiteralIntro", lit |-> lit]
VFunType(mode, param_ty, body_ty) ==
    [tag |-> "FunType", mode |-> mode, vparam_ty |-> param_ty, body_closure |-> body_ty]
VFunIntro(mode, body) == [tag |-> "FunIntro", mode |-> mode, body_closure |-> body]
VRecordTypeExtend(doc, label, ty, rest) ==
    [tag |-> "RecordTypeExtend", doc |-> doc, label |-> label, vty |-> ty,
     rest_closure |-> rest]
VRecordTypeEmpty == [tag |-> "RecordTypeEmpty"]
\* vfields: a sequence of <<label, value>>
VRecordIntro(vfields) == [tag |-> "RecordIntro", vfields |-> vfields]
VUniverse(level) == [tag |-> "Universe", level |-> level]

\* Value::var
ValueVar(level) == VNeutral(NVar(level))

\* RcValue::literal_intro
ValueLiteralIntro(lit) == VLiteralIntro(lit)

\* NbeError
NbeError(message) == [tag |-> "NbeError", message |-> message]

(***************************************************************************)
(* The evaluation environment (spec section 3)                             *)
(***************************************************************************)
\* Env::new
EnvNew == <<>>

\* Env::level: the environment's length is its level count.
EnvLevel(env) == Len(env)

\* Env::add_defn: entries are pushed at the front.
EnvAddDefn(env, value) == PushFront(env, value)

\* Env::add_param: the variable at level = current length, pushed at the
\* front; the environment after the call and the variable.
EnvAddParam(env) ==
    [env |-> PushFront(env, ValueVar(EnvLevel(env))), param |-> ValueVar(EnvLevel(env))]

(***************************************************************************)
(* The primitive environment (spec section 4.6): the registered names      *)
(***************************************************************************)
\* PrimEnv::new
PrimEnvNew == {}

\* PrimEnv::default
PrimEnvDefault == {"u8-add", "u8-eq"}

\* PrimEnv::lookup_entry
lookup_entry(prims, name) == IF name \in prims THEN Some(name) ELSE None

(***************************************************************************)
(* The order of literals                                                   *)
(***************************************************************************)
RECURSIVE SeqCmp(_, _)
\* The lexicographic order of two sequences of numbers.
SeqCmp(a, b) ==
    IF a = <<>> /\ b = <<>> THEN "Equal"
    ELSE IF a = <<>> THEN "Less"
    ELSE IF b = <<>> THEN "Greater"
    ELSE IF Head(a) < Head(b) THEN "Less"
    ELSE IF Head(a) > Head(b) THEN "Greater"
    ELSE SeqCmp(Tail(a), Tail(b))

\* LiteralIntro's partial_cmp: by kind, then by payload; a float payload by
\* its bit pattern (spec section 4.1, "Float literal matching").
literal_partial_cmp(l1, l2) ==
    IF KindRank(l1.kind) < KindRank(l2.kind) THEN "Less"
    ELSE IF KindRank(l1.kind) > KindRank(l2.kind) THEN "Greater"
    ELSE SeqCmp(l1.payload, l2.payload)

\* l1 >= l2 on LiteralIntro
literal_ge(l1, l2) == literal_partial_cmp(l1, l2) \in {"Greater", "Equal"}

(***************************************************************************)
(* Evaluator (spec section 4.1)                                            *)
(***************************************************************************)
\* The ? operator and Result::and_then: an error is returned as it is, and a
\* success is handed to the rest of the computation.  The result r is
\* evaluated once.
AndThen(r, F(_)) ==
    CHOOSE out \in {IF x.tag = "Err" THEN x ELSE F(x.val) : x \in {r}} : TRUE

RECURSIVE eval(_, _, _)
RECURSIVE eval_clauses(_, _, _)
RECURSIVE eval_record_intro(_, _, _)

\* apply(closure, arg): push arg as a definition onto the closure's
\* environment and evaluate the closure's term.
do_closure_app(prims, closure, arg) ==
    eval(prims, EnvAddDefn(closure.env, arg), closure.term)

\* The body of the last clause whose payload equals the literal: a mutant.
find_clause_last(clauses, lit, default_body) ==
    IF \E i \in 1..Len(clauses) : clauses[i][1] = lit
    THEN clauses[CHOOSE i \in 1..Len(clauses) :
                    /\ clauses[i][1] = lit
                    /\ \A j \in (i + 1)..Len(clauses) : clauses[j][1] # lit][2]
    ELSE default_body

\* The body of the first clause whose payload equals the literal; the
\* default body if there is none.
find_clause(clauses, lit, default_body) ==
    IF \E i \in 1..Len(clauses) : clauses[i][1] = lit
    THEN clauses[CHOOSE i \in 1..Len(clauses) :
                    /\ clauses[i][1] = lit
                    /\ \A j \in 1..(i - 1) : clauses[j][1] # lit][2]
    ELSE default_body

\* The clause bodies evaluated in the current environment.
eval_clauses(prims, env, clauses) ==
    IF clauses = <<>> THEN Ok(<<>>)
    ELSE AndThen(eval(prims, env, Head(clauses)[2]), LAMBDA body :
         AndThen(eval_clauses(prims, env, Tail(clauses)), LAMBDA rest :
         Ok(<<<<Head(clauses)[1], body>>>> \o rest)))

\* The fields evaluated in order, each value a definition for the next.
eval_record_intro(prims, env, intro_fields) ==
    IF intro_fields = <<>> THEN Ok(<<>>)
    ELSE AndThen(eval(prims, env, Head(intro_fields)[2]), LAMBDA value :
         AndThen(eval_record_intro(prims, EnvAddDefn(env, value), Tail(intro_fields)),
                 LAMBDA rest :
         Ok(<<<<Head(intro_fields)[1], value>>>> \o rest)))

\* Literal elimination of a scrutinee value.
do_literal_elim(prims, env, scrutinee, clauses, default_body) ==
    IF scrutinee.tag = "LiteralIntro"
    THEN eval(prims, env, find_clause(clauses, scrutinee.lit, default_body))
    ELSE IF scrutinee.tag = "Neutral"
    THEN AndThen(eval_clauses(prims, env, clauses), LAMBDA vclauses :
         AndThen(eval(prims, env, default_body), LAMBDA vdefault :
         Ok(VNeutral(NLiteralElim(scrutinee.neutral, vclauses, vdefault)))))
    ELSE Err(NbeError("do_literal_elim: not a literal"))

\* Function elimination of two values.
do_fun_elim(prims, fun, mode, arg) ==
    IF fun.tag = "FunIntro" /\ fun.mode = mode
    THEN do_closure_app(prims, fun.body_closure, arg)
    ELSE IF fun.tag = "Neutral" THEN Ok(VNeutral(NFunApp(fun.neutral, mode, arg)))
    ELSE Err(NbeError("do_fun_elim: not a function"))

\* Record elimination of a value: the first field with the label.
do_record_elim(record, label) ==
    IF record.tag = "RecordIntro"
    THEN IF \E i \in 1..Len(record.vfields) : record.vfields[i][1] = label
         THEN Ok(record.vfields[CHOOSE i \in 1..Len(record.vfields) :
                                    /\ record.vfields[i][1] = label
                                    /\ \A j \in 1..(i - 1) :
                                        record.vfields[j][1] # label][2])
         ELSE Err(NbeError("do_record_elim: field not found"))
    ELSE IF record.tag = "Neutral" THEN Ok(VNeutral(NRecordProj(record.neutral, label)))
    ELSE Err(NbeError("do_record_elim: not a record"))

eval(prims, env, term) ==
    CASE term.tag = "Var" ->
            IF term.index < Len(env) THEN Ok(env[term.index + 1])
            ELSE Err(NbeError("eval: variable not found"))
      [] term.tag = "Prim" ->
            IF lookup_entry(prims, term.name).tag = "None"
            THEN Err(NbeError("eval: primitive not found"))
            ELSE Ok(VNeutral(NPrim(term.name)))
      [] term.tag = "Let" ->
            AndThen(eval(prims, env, term.def), LAMBDA def :
            eval(prims, EnvAddDefn(env, def), term.body))
      [] term.tag = "LiteralType" -> Ok(VLiteralType(term.lit_ty))
      [] term.tag = "LiteralIntro" -> Ok(VLiteralIntro(term.lit))
      [] term.tag = "LiteralElim" ->
            AndThen(eval(prims, env, term.scrutinee), LAMBDA scrutinee :
            do_literal_elim(prims, env, scrutinee, term.clauses, term.default_body))
      [] term.tag = "FunType" ->
            AndThen(eval(prims, env, term.param_ty), LAMBDA param_ty :
            Ok(VFunType(term.mode, param_ty, Closure(term.body_ty, env))))
      [] term.tag = "FunIntro" -> Ok(VFunIntro(term.mode, Closure(term.body, env)))
      [] term.tag = "FunElim" ->
            AndThen(eval(prims, env, term.fun), LAMBDA fun :
            AndThen(eval(prims, env, term.arg), LAMBDA arg :
            do_fun_elim(prims, fun, term.mode, arg)))
      [] term.tag = "RecordType" ->
            IF term.ty_fields = <<>> THEN Ok(VRecordTypeEmpty)
            ELSE AndThen(eval(prims, env, Head(term.ty_fields)[3]), LAMBDA ty :
                 Ok(VRecordTypeExtend(Head(term.ty_fields)[1], Head(term.ty_fields)[2], ty,
                                      Closure(RecordType(Tail(term.ty_fields)), env))))
      [] term.tag = "RecordIntro" ->
            AndThen(eval_record_intro(prims, env, term.intro_fields), LAMBDA fields :
            Ok(VRecordIntro(fields)))
      [] term.tag = "RecordElim" ->
            AndThen(eval(prims, env, term.record), LAMBDA record :
            do_record_elim(record, term.label))
      [] term.tag = "Universe" -> Ok(VUniverse(term.level))

(***************************************************************************)
(* Readback (spec section 4.2), structural                                 *)
(***************************************************************************)
RECURSIVE read_back(_, _, _)
RECURSIVE read_back_neutral(_, _, _)
RECURSIVE read_back_clauses(_, _, _)
RECURSIVE read_back_fields(_, _, _)
RECURSIVE read_back_record_ty(_, _, _)

read_back_clauses(prims, depth, vclauses) ==
    IF vclauses = <<>> THEN Ok(<<>>)
    ELSE AndThen(read_back(prims, depth, Head(vclauses)[2]), LAMBDA body :
         AndThen(read_back_clauses(prims, depth, Tail(vclauses)), LAMBDA rest :
         Ok(<<<<Head(vclauses)[1], body>>>> \o rest)))

read_back_fields(prims, depth, vfields) ==
    IF vfields = <<>> THEN Ok(<<>>)
    ELSE AndThen(read_back(prims, depth, Head(vfields)[2]), LAMBDA term :
         AndThen(read_back_fields(prims, depth, Tail(vfields)), LAMBDA rest :
         Ok(<<<<Head(vfields)[1], term>>>> \o rest)))

\* The fields of a record type value, each rest closure forced by a fresh
\* parameter at the current depth.
read_back_record_ty(prims, depth, value) ==
    IF value.tag = "RecordTypeEmpty" THEN Ok(<<>>)
    ELSE IF value.tag = "RecordTypeExtend"
    THEN AndThen(read_back(prims, depth, value.vty), LAMBDA ty :
         AndThen(do_closure_app(prims, value.rest_closure, ValueVar(depth)), LAMBDA rest :
         AndThen(read_back_record_ty(prims, depth + 1, rest), LAMBDA fields :
         Ok(<<<<value.doc, value.label, ty>>>> \o fields))))
    ELSE Err(NbeError("read_back: not a record type"))

\* Neutral readback that turns the level l into the index depth - l: a
\* mutant.
read_back_neutral_off_by_one(prims, depth, neutral) ==
    CASE neutral.tag = "NVar" -> Ok(Var(depth - neutral.level))
      [] neutral.tag = "NPrim" -> Ok(Prim(neutral.name))
      [] neutral.tag = "NFunApp" ->
            AndThen(read_back_neutral(prims, depth, neutral.head), LAMBDA head :
            AndThen(read_back(prims, depth, neutral.varg), LAMBDA arg :
            Ok(FunElim(head, neutral.mode, arg))))
      [] neutral.tag = "NRecordProj" ->
            AndThen(read_back_neutral(prims, depth, neutral.head), LAMBDA head :
            Ok(RecordElim(head, neutral.label)))
      [] neutral.tag = "NLiteralElim" ->
            AndThen(read_back_neutral(prims, depth, neutral.head), LAMBDA head :
            AndThen(read_back_clauses(prims, depth, neutral.vclauses), LAMBDA clauses :
            AndThen(read_back(prims, depth, neutral.vdefault), LAMBDA default :
            Ok(LiteralElim(head, clauses, default)))))

\* A variable at level l becomes the index depth - l - 1.
read_back_neutral(prims, depth, neutral) ==
    CASE neutral.tag = "NVar" -> Ok(Var(depth - neutral.level - 1))
      [] neutral.tag = "NPrim" -> Ok(Prim(neutral.name))
      [] neutral.tag = "NFunApp" ->
            AndThen(read_back_neutral(prims, depth, neutral.head), LAMBDA head :
            AndThen(read_back(prims, depth, neutral.varg), LAMBDA arg :
            Ok(FunElim(head, neutral.mode, arg))))
      [] neutral.tag = "NRecordProj" ->
            AndThen(read_back_neutral(prims, depth, neutral.head), LAMBDA head :
            Ok(RecordElim(head, neutral.label)))
      [] neutral.tag = "NLiteralElim" ->
            AndThen(read_back_neutral(prims, depth, neutral.head), LAMBDA head :
            AndThen(read_back_clauses(prims, depth, neutral.vclauses), LAMBDA clauses :
            AndThen(read_back(prims, depth, neutral.vdefault), LAMBDA default :
            Ok(LiteralElim(head, clauses, default)))))

read_back(prims, depth, value) ==
    CASE value.tag = "Neutral" -> read_back_neutral(prims, depth, value.neutral)
      [] value.tag = "LiteralType" -> Ok(LiteralType(value.lit_ty))
      [] value.tag = "LiteralIntro" -> Ok(LiteralIntro(value.lit))
      [] value.tag = "FunType" ->
            AndThen(read_back(prims, depth, value.vparam_ty), LAMBDA param_ty :
            AndThen(do_closure_app(prims, value.body_closure, ValueVar(depth)), LAMBDA body :
            AndThen(read_back(prims, depth + 1, body), LAMBDA body_ty :
            Ok(FunType(value.mode, param_ty, body_ty)))))
      [] value.tag = "FunIntro" ->
            AndThen(do_closure_app(prims, value.body_closure, ValueVar(depth)), LAMBDA body :
            AndThen(read_back(prims, depth + 1, body), LAMBDA term :
            Ok(FunIntro(value.mode, term))))
      [] value.tag \in {"RecordTypeExtend", "RecordTypeEmpty"} ->
            AndThen(read_back_record_ty(prims, depth, value), LAMBDA fields :
            Ok(RecordType(fields)))
      [] value.tag = "RecordIntro" ->
            AndThen(read_back_fields(prims, depth, value.vfields), LAMBDA fields :
            Ok(RecordIntro(fields)))
      [] value.tag = "Universe" -> Ok(Universe(value.level))

\* Normalization: the value of the term read back at the depth of the
\* environment.
normalize(prims, env, term) ==
    AndThen(eval(prims, env, term), LAMBDA value :
    read_back(prims, EnvLevel(env), value))

(***************************************************************************)
(* Readback (spec section 4.2), directed by the expected type              *)
(***************************************************************************)
\* Readback at a type that ignores the type: a mutant.
read_back_typed_structural(prims, depth, ty, value) == read_back(prims, depth, value)

RECURSIVE read_back_typed(_, _, _, _)
RECURSIVE read_back_typed_fields(_, _, _, _)

\* At a record type with first field (label, A, rest): project the value at
\* the label, read it back at A, and read back the remainder at
\* rest(projection).
read_back_typed_fields(prims, depth, ty, value) ==
    IF ty.tag = "RecordTypeEmpty" THEN Ok(<<>>)
    ELSE IF ty.tag = "RecordTypeExtend"
    THEN AndThen(do_record_elim(value, ty.label), LAMBDA field :
         AndThen(read_back_typed(prims, depth, ty.vty, field), LAMBDA term :
         AndThen(do_closure_app(prims, ty.rest_closure, field), LAMBDA rest :
         AndThen(read_back_typed_fields(prims, depth, rest, value), LAMBDA fields :
         Ok(<<<<ty.label, term>>>> \o fields)))))
    ELSE Err(NbeError("read_back: not a record type"))

\* At a function type: the value applied to the variable at level depth,
\* read back at the body type at depth + 1 and wrapped in a function intro
\* of the type's mode.  At a record type: a record intro of the fields.  At
\* any other type: structural.
read_back_typed(prims, depth, ty, value) ==
    CASE ty.tag = "FunType" ->
            AndThen(do_fun_elim(prims, value, ty.mode, ValueVar(depth)), LAMBDA body :
            AndThen(do_closure_app(prims, ty.body_closure, ValueVar(depth)),
                    LAMBDA body_ty :
            AndThen(read_back_typed(prims, depth + 1, body_ty, body), LAMBDA term :
            Ok(FunIntro(ty.mode, term)))))
      [] ty.tag \in {"RecordTypeExtend", "RecordTypeEmpty"} ->
            AndThen(read_back_typed_fields(prims, depth, ty, value), LAMBDA fields :
            Ok(RecordIntro(fields)))
      [] OTHER -> read_back(prims, depth, value)

(***************************************************************************)
(* Conversion and subtyping (spec section 4.3)                             *)
(***************************************************************************)
\* Conversion of two types: read both back at the same depth and compare
\* the terms.
check_equal(prims, depth, v1, v2) ==
    AndThen(read_back(prims, depth, v1), LAMBDA t1 :
    AndThen(read_back(prims, depth, v2), LAMBDA t2 :
    Ok(t1 = t2)))

\* Conversion of two values at a shared type: read both back at the type
\* and the depth and compare the terms.
check_equal_at(prims, depth, ty, v1, v2) ==
    AndThen(read_back_typed(prims, depth, ty, v1), LAMBDA t1 :
    AndThen(read_back_typed(prims, depth, ty, v2), LAMBDA t2 :
    Ok(t1 = t2)))

RECURSIVE check_subtype(_, _, _, _)
\* Subtyping whose universe rule is i < j: a mutant.
check_subtype_strict(prims, depth, ty1, ty2) ==
    IF ty1.tag = "Universe" /\ ty2.tag = "Universe"
    THEN Ok(ty1.level < ty2.level)
    ELSE check_equal(prims, depth, ty1, ty2)

\* Subtyping under a binder: both closures applied to a fresh parameter.
check_subtype_closures(prims, depth, closure1, closure2) ==
    AndThen(do_closure_app(prims, closure1, ValueVar(depth)), LAMBDA v1 :
    AndThen(do_closure_app(prims, closure2, ValueVar(depth)), LAMBDA v2 :
    check_subtype(prims, depth + 1, v1, v2)))

check_subtype(prims, depth, ty1, ty2) ==
    CASE ty1.tag = "Universe" /\ ty2.tag = "Universe" -> Ok(ty1.level <= ty2.level)
      [] ty1.tag = "FunType" /\ ty2.tag = "FunType" ->
            IF ty1.mode # ty2.mode THEN Ok(FALSE)
            ELSE AndThen(check_subtype(prims, depth, ty2.vparam_ty, ty1.vparam_ty),
                         LAMBDA param :
                 IF ~param THEN Ok(FALSE)
                 ELSE check_subtype_closures(prims, depth, ty1.body_closure,
                                             ty2.body_closure))
      [] ty1.tag = "RecordTypeExtend" /\ ty2.tag = "RecordTypeExtend" ->
            IF ty1.label # ty2.label THEN Ok(FALSE)
            ELSE AndThen(check_subtype(prims, depth, ty1.vty, ty2.vty), LAMBDA field :
                 IF ~field THEN Ok(FALSE)
                 ELSE check_subtype_closures(prims, depth, ty1.rest_closure,
                                             ty2.rest_closure))
      [] ty1.tag = "RecordTypeEmpty" /\ ty2.tag = "RecordTypeEmpty" -> Ok(TRUE)
      [] OTHER -> check_equal(prims, depth, ty1, ty2)

(***************************************************************************)
(* validate.rs: the type checking context                                  *)
(***************************************************************************)
\* TypeError
ExpectedFunType(found) == [tag |-> "ExpectedFunType", found |-> found]
ExpectedPairType(found) == [tag |-> "ExpectedPairType", found |-> found]
ExpectedUniverse(found) == [tag |-> "ExpectedUniverse", found |-> found]
ExpectedSubtype(ty1, ty2) == [tag |-> "ExpectedSubtype", ty1 |-> ty1, ty2 |-> ty2]
AmbiguousTerm(term) == [tag |-> "AmbiguousTerm", term |-> term]
UnboundVariable == [tag |-> "UnboundVariable"]
UnknownPrim(name) == [tag |-> "UnknownPrim", name |-> name]
BadLiteralPatterns(lits) == [tag |-> "BadLiteralPatterns", lits |-> lits]
NoFieldInType(label) == [tag |-> "NoFieldInType", label |-> label]
UnexpectedField(found, expected) ==
    [tag |-> "UnexpectedField", found_label |-> found, expected_label |-> expected]
UnexpectedAppMode(found, expected) ==
    [tag |-> "UnexpectedAppMode", found_mode |-> found, expected_mode |-> expected]
TooManyFieldsFound == [tag |-> "TooManyFieldsFound"]
NotEnoughFieldsProvided == [tag |-> "NotEnoughFieldsProvided"]
Nbe(error) == [tag |-> "Nbe", nbe |-> error]

\* impl From<NbeError> for TypeError, as the ? operator applies it.
FromNbe(result) ==
    CHOOSE out \in {IF x.tag = "Err" THEN Err(Nbe(x.err)) ELSE x : x \in {result}} : TRUE

\* Context::new
ContextNew == [prims |-> PrimEnvNew, values |-> EnvNew, tys |-> <<>>]

\* Context::lookup_ty
lookup_ty(context, index) == Get(context.tys, index)

\* Context::add_defn that forgets the type: a mutant.
add_defn_no_ty(context, value, ty) ==
    [context EXCEPT !.values = EnvAddDefn(context.values, value)]

\* Context::add_defn
add_defn(context, value, ty) ==
    [context EXCEPT !.tys = PushFront(context.tys, ty),
                    !.values = EnvAddDefn(context.values, value)]

\* Context::add_param that numbers the parameter by index 0: a mutant.
add_param_index(context, ty) ==
    [context |-> [context EXCEPT !.tys = PushFront(context.tys, ty),
                                 !.values = EnvAddParam(context.values).env],
     param |-> ValueVar(0)]

\* Context::add_param: the context after the call and the variable returned.
add_param(context, ty) ==
    [context |-> [context EXCEPT !.tys = PushFront(context.tys, ty),
                                 !.values = EnvAddParam(context.values).env],
     param |-> EnvAddParam(context.values).param]

\* Context::do_closure_app
context_do_closure_app(context, closure, arg) ==
    do_closure_app(context.prims, closure, arg)

\* Context::eval
context_eval(context, term) == eval(context.prims, context.values, term)

\* Context::expect_subtype with the two types taken in the other order: a
\* mutant.
expect_subtype_swapped(context, ty1, ty2) ==
    AndThen(FromNbe(check_subtype(context.prims, EnvLevel(context.values), ty2, ty1)),
            LAMBDA sub :
    IF sub THEN Ok(Unit) ELSE Err(ExpectedSubtype(ty1, ty2)))

\* Context::expect_subtype
expect_subtype(context, ty1, ty2) ==
    AndThen(FromNbe(check_subtype(context.prims, EnvLevel(context.values), ty1, ty2)),
            LAMBDA sub :
    IF sub THEN Ok(Unit) ELSE Err(ExpectedSubtype(ty1, ty2)))

\* The entries Context::default adds, first to last.
DefaultDefns ==
    LET u0 == VUniverse(0)
        bool == VLiteralType("Bool") IN
    << <<VLiteralType("String"), u0>>,
       <<VLiteralType("Char"), u0>>,
       <<bool, u0>>,
       <<ValueLiteralIntro(LitBool(TRUE)), bool>>,
       <<ValueLiteralIntro(LitBool(FALSE)), bool>>,
       <<VLiteralType("U8"), u0>>,
       <<VLiteralType("U16"), u0>>,
       <<VLiteralType("U32"), u0>>,
       <<VLiteralType("U64"), u0>>,
       <<VLiteralType("S8"), u0>>,
       <<VLiteralType("S16"), u0>>,
       <<VLiteralType("S32"), u0>>,
       <<VLiteralType("S64"), u0>>,
       <<VLiteralType("F32"), u0>>,
       <<VLiteralType("F64"), u0>> >>

RECURSIVE add_defns(_, _)
\* add_defn for each of a sequence of <<value, type>>, in order.
add_defns(context, defns) ==
    IF defns = <<>> THEN context
    ELSE add_defns(add_defn(context, Head(defns)[1], Head(defns)[2]), Tail(defns))

\* Context::default
ContextDefault == [add_defns(ContextNew, DefaultDefns) EXCEPT !.prims = PrimEnvDefault]

(***************************************************************************)
(* validate.rs: the bidirectional validator                                *)
(***************************************************************************)
\* cmp::max
Max(a, b) == IF a >= b THEN a ELSE b

\* synth_literal
synth_literal(literal_intro) == VLiteralType(literal_intro.kind)

\* check_literal
check_literal(context, literal_intro, expected_ty) ==
    expect_subtype(context, synth_literal(literal_intro), expected_ty)

\* The ordering test with f32 patterns <<sign, exponent, mantissa>> ordered
\* as IEEE 754 orders them (l1 >= l2 is false when either is a NaN, true on
\* two zeros of either sign, and otherwise the order of the signed
\* magnitudes): a mutant.
patterns_unsorted_ieee(clauses) ==
    LET IsNaN(p) == p[2] = 255 /\ p[3] # 0
        IsZero(p) == p[2] = 0 /\ p[3] = 0
        ieee_ge(p1, p2) ==
            IF IsNaN(p1) \/ IsNaN(p2) THEN FALSE
            ELSE IF IsZero(p1) /\ IsZero(p2) THEN TRUE
            ELSE IF p1[1] # p2[1] THEN p1[1] = 0
            ELSE IF p1[1] = 0 THEN SeqCmp(Tail(p1), Tail(p2)) \in {"Greater", "Equal"}
            ELSE SeqCmp(Tail(p1), Tail(p2)) \in {"Less", "Equal"}
    IN  \E i \in 1..(Len(clauses) - 1) :
            IF clauses[i][1].kind = "F32" /\ clauses[i + 1][1].kind = "F32"
            THEN ieee_ge(clauses[i][1].payload, clauses[i + 1][1].payload)
            ELSE literal_ge(clauses[i][1], clauses[i + 1][1])

\* check_term, LiteralElim: clauses.iter().tuple_windows().any(|l1, l2| l1 >= l2)
patterns_unsorted(clauses) ==
    \E i \in 1..(Len(clauses) - 1) : literal_ge(clauses[i][1], clauses[i + 1][1])

\* clauses.iter().map(|(l, _)| l.clone()).collect()
clause_literals(clauses) == [i \in 1..Len(clauses) |-> clauses[i][1]]

\* synth_term, Universe, without the + 1: a mutant.
synth_term_universe_same(level) == Ok(VUniverse(level))

\* synth_term, Universe
synth_term_universe(level) == Ok(VUniverse(level + 1))

\* synth_term, RecordIntro, synthesizing every record intro as the empty
\* record type: a mutant.
synth_term_record_intro_any(term) == Ok(VRecordTypeEmpty)

\* synth_term, RecordIntro
synth_term_record_intro(term) ==
    IF term.intro_fields = <<>> THEN Ok(VRecordTypeEmpty)
    ELSE Err(AmbiguousTerm(term))

\* check_term, Prim, with the lookup left out: a mutant.
check_term_prim_any(context, name) == Ok(Unit)

\* check_term, Prim
check_term_prim(context, name) ==
    IF lookup_entry(context.prims, name).tag = "None"
    THEN Err(UnknownPrim(name))
    ELSE Ok(Unit)

\* synth_term, Prim
synth_term_prim(context, term) ==
    IF lookup_entry(context.prims, term.name).tag = "None"
    THEN Err(UnknownPrim(term.name))
    ELSE Err(AmbiguousTerm(term))

\* synth_term, Var, with the index counted from the oldest entry: a mutant.
synth_term_var_level(context, index) ==
    IF Get(context.tys, Len(context.tys) - 1 - index).tag = "None"
    THEN Err(UnboundVariable)
    ELSE Ok(Get(context.tys, Len(context.tys) - 1 - index).some)

\* synth_term, Var
synth_term_var(context, index) ==
    IF lookup_ty(context, index).tag = "None" THEN Err(UnboundVariable)
    ELSE Ok(lookup_ty(context, index).some)

\* synth_universe, the match on the synthesized type.
expect_universe(ty) ==
    IF ty.tag = "Universe" THEN Ok(ty.level) ELSE Err(ExpectedUniverse(ty))

RECURSIVE check_term(_, _, _)
RECURSIVE synth_term(_, _)
RECURSIVE check_clauses(_, _, _, _)
RECURSIVE check_record_intro(_, _, _)
RECURSIVE synth_record_type(_, _, _)
RECURSIVE synth_record_elim(_, _, _, _)

\* synth_universe
synth_universe(context, term) ==
    AndThen(synth_term(context, term), LAMBDA ty : expect_universe(ty))

\* check_term and synth_term, Let, and check_module's loop body: the
\* declared type synthesizes a universe and is evaluated, the definition is
\* checked against it and evaluated, and the context is extended with both.
let_body_context(context, def, def_ty) ==
    AndThen(synth_universe(context, def_ty), LAMBDA level :
    AndThen(FromNbe(context_eval(context, def_ty)), LAMBDA def_ty_value :
    AndThen(check_term(context, def, def_ty_value), LAMBDA checked :
    AndThen(FromNbe(context_eval(context, def)), LAMBDA def_value :
    Ok(add_defn(context, def_value, def_ty_value))))))

\* check_term, LiteralElim: the loop over the clauses.
check_clauses(context, clauses, scrutinee_ty, expected_ty) ==
    IF clauses = <<>> THEN Ok(Unit)
    ELSE AndThen(check_literal(context, Head(clauses)[1], scrutinee_ty), LAMBDA lit :
         AndThen(check_term(context, Head(clauses)[2], expected_ty), LAMBDA body :
         check_clauses(context, Tail(clauses), scrutinee_ty, expected_ty)))

\* check_term, LiteralElim, with the clauses checked before their order: a
\* mutant.
check_literal_elim_late(context, term, expected_ty) ==
    AndThen(synth_term(context, term.scrutinee), LAMBDA scrutinee_ty :
    AndThen(check_clauses(context, term.clauses, scrutinee_ty, expected_ty),
            LAMBDA checked :
    IF patterns_unsorted(term.clauses)
    THEN Err(BadLiteralPatterns(clause_literals(term.clauses)))
    ELSE check_term(context, term.default_body, expected_ty)))

\* check_term, LiteralElim
check_literal_elim(context, term, expected_ty) ==
    AndThen(synth_term(context, term.scrutinee), LAMBDA scrutinee_ty :
    IF patterns_unsorted(term.clauses)
    THEN Err(BadLiteralPatterns(clause_literals(term.clauses)))
    ELSE AndThen(check_clauses(context, term.clauses, scrutinee_ty, expected_ty),
                 LAMBDA checked :
         check_term(context, term.default_body, expected_ty)))

\* check_term, FunIntro, with the modes not compared: a mutant.
check_fun_intro_any_mode(context, term, expected_ty) ==
    IF expected_ty.tag = "FunType"
    THEN AndThen(FromNbe(context_do_closure_app(context, expected_ty.body_closure,
                            add_param(context, expected_ty.vparam_ty).param)),
                 LAMBDA body_ty :
         check_term(add_param(context, expected_ty.vparam_ty).context, term.body, body_ty))
    ELSE Err(ExpectedFunType(expected_ty))

\* check_term, FunIntro
check_fun_intro(context, term, expected_ty) ==
    IF expected_ty.tag = "FunType" /\ term.mode = expected_ty.mode
    THEN AndThen(FromNbe(context_do_closure_app(context, expected_ty.body_closure,
                            add_param(context, expected_ty.vparam_ty).param)),
                 LAMBDA body_ty :
         check_term(add_param(context, expected_ty.vparam_ty).context, term.body, body_ty))
    ELSE IF expected_ty.tag = "FunType"
    THEN Err(UnexpectedAppMode(term.mode, expected_ty.mode))
    ELSE Err(ExpectedFunType(expected_ty))

\* check_term, RecordIntro, with the labels not compared: a mutant.
check_record_intro_any_label(context, intro_fields, expected_ty) ==
    IF intro_fields = <<>>
    THEN IF expected_ty.tag = "RecordTypeEmpty" THEN Ok(Unit)
         ELSE Err(NotEnoughFieldsProvided)
    ELSE IF expected_ty.tag = "RecordTypeExtend"
    THEN AndThen(check_term(context, Head(intro_fields)[2], expected_ty.vty),
                 LAMBDA checked :
         AndThen(FromNbe(context_eval(context, Head(intro_fields)[2])),
                 LAMBDA term_value :
         AndThen(FromNbe(context_do_closure_app(
                     add_defn(context, term_value, expected_ty.vty),
                     expected_ty.rest_closure, term_value)),
                 LAMBDA rest :
         check_record_intro(add_defn(context, term_value, expected_ty.vty),
                            Tail(intro_fields), rest))))
    ELSE Err(TooManyFieldsFound)

\* check_term, RecordIntro: the loop over the fields and the test after it.
check_record_intro(context, intro_fields, expected_ty) ==
    IF intro_fields = <<>>
    THEN IF expected_ty.tag = "RecordTypeEmpty" THEN Ok(Unit)
         ELSE Err(NotEnoughFieldsProvided)
    ELSE IF expected_ty.tag = "RecordTypeExtend"
    THEN IF Head(intro_fields)[1] # expected_ty.label
         THEN Err(UnexpectedField(Head(intro_fields)[1], expected_ty.label))
         ELSE AndThen(check_term(context, Head(intro_fields)[2], expected_ty.vty),
                      LAMBDA checked :
              AndThen(FromNbe(context_eval(context, Head(intro_fields)[2])),
                      LAMBDA term_value :
              AndThen(FromNbe(context_do_closure_app(
                          add_defn(context, term_value, expected_ty.vty),
                          expected_ty.rest_closure, term_value)),
                      LAMBDA rest :
              check_record_intro(add_defn(context, term_value, expected_ty.vty),
                                 Tail(intro_fields), rest))))
    ELSE Err(TooManyFieldsFound)

\* check_term
check_term(context, term, expected_ty) ==
    CASE term.tag = "Prim" -> check_term_prim(context, term.name)
      [] term.tag = "Let" ->
            AndThen(let_body_context(context, term.def, term.def_ty), LAMBDA body_context :
            check_term(body_context, term.body, expected_ty))
      [] term.tag = "LiteralElim" -> check_literal_elim(context, term, expected_ty)
      [] term.tag = "FunIntro" -> check_fun_intro(context, term, expected_ty)
      [] term.tag = "RecordIntro" ->
            check_record_intro(context, term.intro_fields, expected_ty)
      [] OTHER ->
            AndThen(synth_term(context, term), LAMBDA ty :
            expect_subtype(context, ty, expected_ty))

\* synth_term, RecordType: the loop over the fields.
synth_record_type(context, ty_fields, max_level) ==
    IF ty_fields = <<>> THEN Ok(VUniverse(max_level))
    ELSE AndThen(synth_universe(context, Head(ty_fields)[3]), LAMBDA ty_level :
         AndThen(FromNbe(context_eval(context, Head(ty_fields)[3])), LAMBDA ty_value :
         synth_record_type(add_param(context, ty_value).context, Tail(ty_fields),
                           Max(max_level, ty_level))))

\* synth_term, RecordElim, with the rest of the record type opened with a
\* fresh variable in place of the projection from the record: a mutant.
synth_record_elim_fresh(context, record, label, record_ty) ==
    IF record_ty.tag = "RecordTypeExtend"
    THEN IF label = record_ty.label THEN Ok(record_ty.vty)
         ELSE AndThen(FromNbe(context_do_closure_app(context, record_ty.rest_closure,
                                  ValueVar(EnvLevel(context.values)))),
                      LAMBDA rest :
              synth_record_elim(context, record, label, rest))
    ELSE Err(NoFieldInType(label))

\* synth_term, RecordElim: the walk along the record type.
synth_record_elim(context, record, label, record_ty) ==
    IF record_ty.tag = "RecordTypeExtend"
    THEN IF label = record_ty.label THEN Ok(record_ty.vty)
         ELSE AndThen(FromNbe(context_eval(context, RecordElim(record, record_ty.label))),
                      LAMBDA value :
              AndThen(FromNbe(context_do_closure_app(context, record_ty.rest_closure, value)),
                      LAMBDA rest :
              synth_record_elim(context, record, label, rest)))
    ELSE Err(NoFieldInType(label))

\* synth_term, FunType, with the body type synthesized in the caller's
\* context: a mutant.
synth_fun_type_outer(context, term) ==
    AndThen(synth_universe(context, term.param_ty), LAMBDA param_level :
    AndThen(FromNbe(context_eval(context, term.param_ty)), LAMBDA param_ty_value :
    AndThen(synth_universe(context, term.body_ty), LAMBDA body_level :
    Ok(VUniverse(Max(param_level, body_level))))))

\* synth_term, FunType
synth_fun_type(context, term) ==
    AndThen(synth_universe(context, term.param_ty), LAMBDA param_level :
    AndThen(FromNbe(context_eval(context, term.param_ty)), LAMBDA param_ty_value :
    AndThen(synth_universe(add_param(context, param_ty_value).context, term.body_ty),
            LAMBDA body_level :
    Ok(VUniverse(Max(param_level, body_level))))))

\* synth_term, FunElim: the match on the type of the head.
synth_fun_elim(context, term, fun_ty) ==
    IF fun_ty.tag = "FunType" /\ term.mode = fun_ty.mode
    THEN AndThen(check_term(context, term.arg, fun_ty.vparam_ty), LAMBDA checked :
         AndThen(FromNbe(context_eval(context, term.arg)), LAMBDA arg_value :
         FromNbe(context_do_closure_app(context, fun_ty.body_closure, arg_value))))
    ELSE IF fun_ty.tag = "FunType"
    THEN Err(UnexpectedAppMode(term.mode, fun_ty.mode))
    ELSE Err(ExpectedFunType(fun_ty))

\* synth_term
synth_term(context, term) ==
    CASE term.tag = "Var" -> synth_term_var(context, term.index)
      [] term.tag = "Prim" -> synth_term_prim(context, term)
      [] term.tag = "Let" ->
            AndThen(let_body_context(context, term.def, term.def_ty), LAMBDA body_context :
            synth_term(body_context, term.body))
      [] term.tag = "LiteralType" -> Ok(VUniverse(0))
      [] term.tag = "LiteralIntro" -> Ok(synth_literal(term.lit))
      [] term.tag = "LiteralElim" -> Err(AmbiguousTerm(term))
      [] term.tag = "FunType" -> synth_fun_type(context, term)
      [] term.tag = "FunIntro" -> Err(AmbiguousTerm(term))
      [] term.tag = "FunElim" ->
            AndThen(synth_term(context, term.fun), LAMBDA fun_ty :
            synth_fun_elim(context, term, fun_ty))
      [] term.tag = "RecordType" -> synth_record_type(context, term.ty_fields, 0)
      [] term.tag = "RecordIntro" -> synth_term_record_intro(term)
      [] term.tag = "RecordElim" ->
            AndThen(synth_term(context, term.record), LAMBDA record_ty :
            synth_record_elim(context, term.record, term.label, record_ty))
      [] term.tag = "Universe" -> synth_term_universe(term.level)

RECURSIVE check_items(_, _)
\* check_module's loop going on after an item's error, in the context as
\* it was, and returning the last error met: a mutant.
check_items_lenient(context, items) ==
    IF items = <<>> THEN Ok(Unit)
    ELSE LET item == let_body_context(context, Head(items)[3], Head(items)[2])
             rest == check_items(IF IsErr(item) THEN context ELSE item.val, Tail(items))
         IN  IF IsErr(rest) \/ IsOk(item) THEN rest ELSE item

\* check_module's loop checking every item in the context it was given,
\* not extended with the items before: a mutant.
check_items_unextended(context, items) ==
    IF items = <<>> THEN Ok(Unit)
    ELSE AndThen(let_body_context(context, Head(items)[3], Head(items)[2]),
                 LAMBDA item_context :
         check_items(context, Tail(items)))

\* check_module: the loop over the items <<label, term_ty, term>>, each
\* checked in the context extended with the items before it.
check_items(context, items) ==
    IF items = <<>> THEN Ok(Unit)
    ELSE AndThen(let_body_context(context, Head(items)[3], Head(items)[2]),
                 LAMBDA item_context :
         check_items(item_context, Tail(items)))

\* check_module
check_module(context, module) == check_items(context, module)

(***************************************************************************)
(* mltt-span/src/file.rs: files.  A string is the sequence of its          *)
(* characters, each a string of one character; the sources are ASCII, so a *)
(* byte index is the number of characters before it.                       *)
(***************************************************************************)
File(id, name, contents) == [id |-> id, name |-> name, contents |-> contents]

\* Span::new
Span(source, start, end) == [source |-> source, start |-> start, end |-> end]

\* File::span: the span of the whole contents.
file_span(file) == Span(file.id, 0, Len(file.contents))

\* Files::new
FilesNew == <<>>

\* Files::add: the files after the call and the id returned.
files_add(fs, name, contents) ==
    [files |-> Append(fs, File(Len(fs), name, contents)), file_id |-> Len(fs)]

\* ops::Index<FileId> for Files
files_index(fs, file_id) == fs[file_id + 1]

\* str::match_indices('\n'): the byte indices of the line feeds, ascending.
match_indices(source) == {pos \in 0..(Len(source) - 1) : source[pos + 1] = "\n"}

Location(byte, line, column) == [byte |-> byte, line |-> line, column |-> column]

RECURSIVE byte_index_loop(_, _, _, _, _)
\* Files::byte_index, the loop over the line feeds at or after the byte
\* index from.
byte_index_loop(source, from, line, column, seen) ==
    IF {pos \in match_indices(source) : pos >= from} = {} THEN None
    ELSE IF seen[1] = line THEN Some(seen[2] + column)
    ELSE byte_index_loop(source,
            (CHOOSE pos \in match_indices(source) :
                /\ pos >= from
                /\ \A other \in match_indices(source) : other >= from => pos <= other) + 1,
            line, column,
            <<seen[1] + 1,
              (CHOOSE pos \in match_indices(source) :
                /\ pos >= from
                /\ \A other \in match_indices(source) : other >= from => pos <= other) + 1>>)

\* Files::byte_index
byte_index(fs, file_id, line, column) ==
    byte_index_loop(files_index(fs, file_id).contents, 0, line, column, <<0, 0>>)

RECURSIVE location_loop(_, _, _, _)
\* Files::location, the loop over the line feeds at or after the byte index
\* from; seen is <<seen_lines, seen_bytes>>.
location_loop(source, from, byte, seen) ==
    IF {pos \in match_indices(source) : pos >= from} = {} THEN None
    ELSE IF (CHOOSE pos \in match_indices(source) :
                /\ pos >= from
                /\ \A other \in match_indices(source) : other >= from => pos <= other)
            > byte
    THEN Some(Location(byte, seen[1], byte - seen[2]))
    ELSE location_loop(source,
            (CHOOSE pos \in match_indices(source) :
                /\ pos >= from
                /\ \A other \in match_indices(source) : other >= from => pos <= other) + 1,
            byte,
            <<seen[1] + 1,
              CHOOSE pos \in match_indices(source) :
                /\ pos >= from
                /\ \A other \in match_indices(source) : other >= from => pos <= other>>)

\* Files::location
location(fs, file_id, byte) ==
    location_loop(files_index(fs, file_id).contents, 0, byte, <<0, 0>>)

(***************************************************************************)
(* mltt-parse/src/lexer.rs: the lexer.  A predicate on characters is the   *)
(* set of the characters it holds of.                                      *)
(***************************************************************************)
AsciiLower ==
    {"a", "b", "c", "d", "e", "f", "g", "h", "i", "j", "k", "l", "m",
     "n", "o", "p", "q", "r", "s", "t", "u", "v", "w", "x", "y", "z"}
AsciiUpper ==
    {"A", "B", "C", "D", "E", "F", "G", "H", "I", "J", "K", "L", "M",
     "N", "O", "P", "Q", "R", "S", "T", "U", "V", "W", "X", "Y", "Z"}
\* The digits of char::is_digit, by value.
DigitChars ==
    <<{"0"}, {"1"}, {"2"}, {"3"}, {"4"}, {"5"}, {"6"}, {"7"}, {"8"}, {"9"},
      {"a", "A"}, {"b", "B"}, {"c", "C"}, {"d", "D"}, {"e", "E"}, {"f", "F"}>>

\* char::is_digit(radix)
is_digit(radix) == UNION {DigitChars[i] : i \in 1..radix}

is_symbol ==
    {"&", "!", ":", ",", ".", "=", "\\", "/", ">", "<", "-", "|", "+", ";", "*", "^", "?"}
is_delimiter == {"(", ")", "{", "}", "[", "]"}
is_identifier_start == AsciiLower \cup AsciiUpper \cup {"_", "-"}
is_identifier_continue == AsciiLower \cup AsciiUpper \cup is_digit(10) \cup {"_", "-"}
is_bin_digit == is_digit(2)
is_oct_digit == is_digit(8)
is_dec_digit == is_digit(10)
is_hex_digit == is_digit(16)
\* char::is_whitespace, on ASCII
is_whitespace == {" ", "\t", "\n", "\r"}

\* The characters of the sources.
Char ==
    is_symbol \cup is_delimiter \cup is_identifier_continue \cup is_whitespace
    \cup {"\"", "'", "#"}

\* ByteSize::from_char_len_utf8, on ASCII
from_char_len_utf8(ch) == 1

Token(tag, slice, span) == [tag |-> tag, slice |-> slice, span |-> span]

\* Diagnostic::new_error(message).with_label(Label::new_primary(span))
Diagnostic(message, span) == [message |-> message, label |-> span]

\* CharIndices::next at the character index chars.
chars_next(file, chars) ==
    IF chars < Len(file.contents) THEN Some(<<chars, file.contents[chars + 1]>>)
    ELSE None

\* Lexer::new
LexerNew(file) ==
    [file |-> file,
     chars |-> IF Len(file.contents) > 0 THEN 1 ELSE 0,
     lookahead |-> chars_next(file, 0)]

\* Lexer::span
lexer_span(lx, start, end) == Span(lx.file.id, start, end)

\* Lexer::eof
eof(lx) == file_span(lx.file).end

\* Lexer::slice
slice(lx, start, end) == SubSeq(lx.file.contents, start + 1, end)

\* Lexer::emit whose span ends one byte later than its slice: a mutant.
emit_wide(lx, tag, start, end) ==
    Token(tag, slice(lx, start, end), lexer_span(lx, start, end + 1))

\* Lexer::emit
emit(lx, tag, start, end) == Token(tag, slice(lx, start, end), lexer_span(lx, start, end))

\* Lexer::lookahead
lookahead(lx) == lx.lookahead

\* Lexer::bump: the lexer after the call and the character returned.
bump(lx) ==
    [lexer |-> [lx EXCEPT !.lookahead = chars_next(lx.file, lx.chars),
                          !.chars = IF @ < Len(lx.file.contents) THEN @ + 1 ELSE @],
     current |-> lookahead(lx)]

\* Lexer::expect_bump
expect_bump(lx) ==
    [lexer |-> bump(lx).lexer,
     ret |-> IF bump(lx).current = None
             THEN Err(Diagnostic(<<"unexpected end of file">>, lexer_span(lx, eof(lx), eof(lx))))
             ELSE Ok(bump(lx).current.some)]

RECURSIVE take_until(_, _)
\* Lexer::take_until: the lexer after the call and the end returned.
take_until(lx, terminate) ==
    IF lookahead(lx) = None THEN [lexer |-> lx, end |-> eof(lx)]
    ELSE IF lookahead(lx).some[2] \in terminate
    THEN [lexer |-> lx, end |-> lookahead(lx).some[1]]
    ELSE take_until(bump(lx).lexer, terminate)

\* Lexer::take_while
take_while(lx, keep_going) == take_until(lx, Char \ keep_going)

\* Lexer::continue_line_comment: the lexer after the call and the token.
continue_line_comment(lx, start) ==
    [lexer |-> take_until(lx, {"\n"}).lexer,
     ret |-> Ok(emit(lx, "LineComment", start, take_until(lx, {"\n"}).end))]

\* Lexer::continue_line_doc
continue_line_doc(lx, start) ==
    [lexer |-> take_until(lx, {"\n"}).lexer,
     ret |-> Ok(emit(lx, "LineDoc", start, take_until(lx, {"\n"}).end))]

\* str::starts_with
starts_with(str, prefix) ==
    Len(str) >= Len(prefix) /\ SubSeq(str, 1, Len(prefix)) = prefix

\* Lexer::continue_symbol
continue_symbol(lx, start) ==
    IF starts_with(slice(lx, start, take_while(lx, is_symbol).end), <<"|", "|", "|">>)
    THEN continue_line_doc(take_while(lx, is_symbol).lexer, start)
    ELSE IF starts_with(slice(lx, start, take_while(lx, is_symbol).end), <<"-", "-">>)
    THEN continue_line_comment(take_while(lx, is_symbol).lexer, start)
    ELSE [lexer |-> take_while(lx, is_symbol).lexer,
          ret |-> Ok(emit(lx, "Symbol", start, take_while(lx, is_symbol).end))]

\* Lexer::continue_identifier
continue_identifier(lx, start) ==
    [lexer |-> take_while(lx, is_identifier_continue).lexer,
     ret |-> Ok(emit(lx, "Identifier", start,
                     take_while(lx, is_identifier_continue).end))]

\* Lexer::start_escape
start_escape(lx) ==
    [lexer |-> expect_bump(lx).lexer,
     ret |-> IF IsErr(expect_bump(lx).ret) THEN expect_bump(lx).ret
             ELSE IF expect_bump(lx).ret.val[2] \in {"'", "\"", "\\", "/", "n", "r", "t"}
             THEN Ok(Unit)
             ELSE Err(Diagnostic(<<"unknown escape code", expect_bump(lx).ret.val[2]>>,
                                 lexer_span(lx, expect_bump(lx).ret.val[1],
                                      expect_bump(lx).ret.val[1]
                                        + from_char_len_utf8(expect_bump(lx).ret.val[2]))))]

RECURSIVE string_literal_loop(_, _, _)
\* Lexer::continue_string_literal, the loop: end is the end of the last
\* character taken.
string_literal_loop(lx, start, end) ==
    IF bump(lx).current = None
    THEN [lexer |-> bump(lx).lexer,
          ret |-> Err(Diagnostic(<<"unterminated string literal">>, lexer_span(lx, start, end)))]
    ELSE IF bump(lx).current.some[2] = "\""
    THEN [lexer |-> bump(lx).lexer,
          ret |-> Ok(emit(lx, "StringLiteral", start,
                          bump(lx).current.some[1]
                            + from_char_len_utf8(bump(lx).current.some[2])))]
    ELSE string_literal_loop(bump(lx).lexer, start,
                             bump(lx).current.some[1]
                               + from_char_len_utf8(bump(lx).current.some[2]))

\* Lexer::continue_string_literal
continue_string_literal(lx, start) == string_literal_loop(lx, start, start)

\* Lexer::continue_char_literal, the second match: the closing quote.
char_literal_close(lx, start) ==
    [lexer |-> expect_bump(lx).lexer,
     ret |-> IF IsErr(expect_bump(lx).ret) THEN expect_bump(lx).ret
             ELSE IF expect_bump(lx).ret.val[2] = "'"
             THEN Ok(emit(lx, "CharLiteral", start,
                          expect_bump(lx).ret.val[1] + from_char_len_utf8("'")))
             ELSE Err(Diagnostic(<<"unterminated character literal">>,
                                 lexer_span(lx, start,
                                      expect_bump(lx).ret.val[1]
                                        + from_char_len_utf8(expect_bump(lx).ret.val[2]))))]

\* Lexer::continue_char_literal
continue_char_literal(lx, start) ==
    IF IsErr(expect_bump(lx).ret) THEN expect_bump(lx)
    ELSE IF expect_bump(lx).ret.val[2] = "\\"
    THEN IF IsErr(start_escape(expect_bump(lx).lexer).ret)
         THEN start_escape(expect_bump(lx).lexer)
         ELSE char_literal_close(start_escape(expect_bump(lx).lexer).lexer, start)
    ELSE IF expect_bump(lx).ret.val[2] = "'"
    THEN [lexer |-> expect_bump(lx).lexer,
          ret |-> Err(Diagnostic(<<"empty character literal">>,
                                 lexer_span(lx, start,
                                      expect_bump(lx).ret.val[1] + from_char_len_utf8("'"))))]
    ELSE char_literal_close(expect_bump(lx).lexer, start)

\* Lexer::continue_bin_literal
continue_bin_literal(lx, start) ==
    [lexer |-> take_while(bump(lx).lexer, is_bin_digit).lexer,
     ret |-> IF take_while(bump(lx).lexer, is_bin_digit).end - start <= 0
             THEN Err(Diagnostic(<<"unterminated binary literal">>,
                         lexer_span(lx, start, take_while(bump(lx).lexer, is_bin_digit).end)))
             ELSE Ok(emit(lx, "IntLiteral", start,
                          take_while(bump(lx).lexer, is_bin_digit).end))]

\* Lexer::continue_oct_literal
continue_oct_literal(lx, start) ==
    [lexer |-> take_while(bump(lx).lexer, is_oct_digit).lexer,
     ret |-> IF take_while(bump(lx).lexer, is_oct_digit).end - start <= 0
             THEN Err(Diagnostic(<<"unterminated octal literal">>,
                         lexer_span(lx, start, take_while(bump(lx).lexer, is_oct_digit).end)))
             ELSE Ok(emit(lx, "IntLiteral", start,
                          take_while(bump(lx).lexer, is_oct_digit).end))]

\* Lexer::continue_hex_literal
continue_hex_literal(lx, start) ==
    [lexer |-> take_while(bump(lx).lexer, is_hex_digit).lexer,
     ret |-> IF take_while(bump(lx).lexer, is_hex_digit).end - start <= 0
             THEN Err(Diagnostic(<<"unterminated hexadecimal literal">>,
                         lexer_span(lx, start, take_while(bump(lx).lexer, is_hex_digit).end)))
             ELSE Ok(emit(lx, "IntLiteral", start,
                          take_while(bump(lx).lexer, is_hex_digit).end))]

\* Lexer::continue_dec_literal
continue_dec_literal(lx, start) ==
    IF lookahead(take_while(lx, is_dec_digit).lexer) # None
       /\ lookahead(take_while(lx, is_dec_digit).lexer).some[2] = "."
    THEN [lexer |-> take_while(bump(take_while(lx, is_dec_digit).lexer).lexer,
                               is_dec_digit).lexer,
          ret |-> Ok(emit(lx, "FloatLiteral", start,
                          take_while(bump(take_while(lx, is_dec_digit).lexer).lexer,
                                     is_dec_digit).end))]
    ELSE [lexer |-> take_while(lx, is_dec_digit).lexer,
          ret |-> Ok(emit(lx, "IntLiteral", start, take_while(lx, is_dec_digit).end))]

\* Lexer::continue_zero_number
continue_zero_number(lx, start) ==
    IF lookahead(lx) # None /\ lookahead(lx).some[2] = "b"
    THEN continue_bin_literal(lx, start)
    ELSE IF lookahead(lx) # None /\ lookahead(lx).some[2] = "o"
    THEN continue_oct_literal(lx, start)
    ELSE IF lookahead(lx) # None /\ lookahead(lx).some[2] = "x"
    THEN continue_hex_literal(lx, start)
    ELSE continue_dec_literal(lx, start)

\* Some(result) of a continuation, with the lexer after it.
SomeOf(continued) == [lexer |-> continued.lexer, ret |-> Some(continued.ret)]

RECURSIVE next(_)
\* Iterator::next for Lexer, the match on the character ch bumped at start;
\* lx is the lexer after the bump.
next_match(lx, start, ch) ==
    IF ch \in is_symbol THEN SomeOf(continue_symbol(lx, start))
    ELSE IF ch \in is_delimiter
    THEN [lexer |-> lx,
          ret |-> Some(Ok(emit(lx, "Delimiter", start, start + from_char_len_utf8(ch))))]
    ELSE IF ch \in is_identifier_start THEN SomeOf(continue_identifier(lx, start))
    ELSE IF ch = "\"" THEN SomeOf(continue_string_literal(lx, start))
    ELSE IF ch = "'" THEN SomeOf(continue_char_literal(lx, start))
    ELSE IF ch = "0" THEN SomeOf(continue_zero_number(lx, start))
    ELSE IF ch \in is_whitespace THEN next(lx)
    ELSE IF ch \in is_dec_digit THEN SomeOf(continue_dec_literal(lx, start))
    ELSE [lexer |-> lx,
          ret |-> Some(Err(Diagnostic(<<"unexpected character", ch>>,
                                      lexer_span(lx, start, start + from_char_len_utf8(ch)))))]

\* Iterator::next for Lexer: the lexer after the call and the item returned.
next(lx) ==
    IF bump(lx).current = None THEN [lexer |-> bump(lx).lexer, ret |-> None]
    ELSE next_match(bump(lx).lexer, bump(lx).current.some[1], bump(lx).current.some[2])

NoCall == [op |-> "none"]

\* No file has been added and no lexer made.
SourceIdle ==
    /\ files = <<>>
    /\ lexer = None
    /\ lexed = <<>>

MetaIdle ==
    /\ solutions = MetaEnvNew
    /\ metaCall = [op |-> "new"]
    /\ metaPanic = "none"

MetaInit ==
    /\ MetaIdle
    /\ SourceIdle
    /\ ctx = ContextNew
    /\ call = NoCall

LookupSolution ==
    /\ metaPanic = "none"
    /\ \E index \in 0..MaxSlots :
        /\ metaCall' = [op |-> "lookup_solution", index |-> index,
                        ret |-> lookup_solution(solutions, index)]
        /\ UNCHANGED <<solutions, metaPanic, checkVars, sourceVars>>

AddSolved ==
    /\ metaPanic = "none"
    /\ \E index \in 0..MaxSlots, solved \in SolvedValues :
        LET r == add_solved(solutions, index, solved) IN
        /\ solutions' = r.sols
        /\ metaPanic' = r.panic
        /\ metaCall' = [op |-> "add_solved", index |-> index, solved |-> solved]
        /\ UNCHANGED <<checkVars, sourceVars>>

AddUnsolved ==
    /\ metaPanic = "none"
    /\ Len(solutions) < MaxSlots
    /\ \E span \in Spans :
        LET r == add_unsolved(solutions, span) IN
        /\ solutions' = r.sols
        /\ metaCall' = [op |-> "add_unsolved", span |-> span, index |-> r.index]
        /\ UNCHANGED <<metaPanic, checkVars, sourceVars>>

MetaNext == LookupSolution \/ AddSolved \/ AddUnsolved

SpecMeta == MetaInit /\ [][MetaNext]_vars

(***************************************************************************)
(* The context: Context::new or Context::default, then add_defn, add_param *)
(* and lookup_ty in any order                                              *)
(***************************************************************************)
\* The types and values the callers add to a ctx.
CtxTypes == {VUniverse(level) : level \in 0..MaxLevel}
CtxValues == {VLiteralType("Bool")}

\* The number of entries Context::default starts with.
InitialEntries(c) == IF c.prims = PrimEnvDefault THEN Len(DefaultDefns) ELSE 0

\* Whether fewer than `bound` entries were added to the ctx.
CanGrow(c, bound) ==
    /\ Len(c.tys) < InitialEntries(c) + bound
    /\ Len(c.values) < InitialEntries(c) + bound

ContextInit ==
    /\ MetaIdle
    /\ SourceIdle
    /\ ctx \in {ContextNew, ContextDefault}
    /\ call = NoCall

AddDefn ==
    /\ call = NoCall
    /\ CanGrow(ctx, MaxEntries)
    /\ \E value \in CtxValues, ty \in CtxTypes :
        /\ ctx' = add_defn(ctx, value, ty)
        /\ call' = [op |-> "add_defn", value |-> value, ty |-> ty]
    /\ UNCHANGED <<metaVars, sourceVars>>

AddParam ==
    /\ call = NoCall
    /\ CanGrow(ctx, MaxEntries)
    /\ \E ty \in CtxTypes :
        LET r == add_param(ctx, ty) IN
        /\ ctx' = r.context
        /\ call' = [op |-> "add_param", ty |-> ty, ret |-> r.param]
    /\ UNCHANGED <<metaVars, sourceVars>>

LookupTy ==
    /\ call = NoCall
    /\ \E index \in 0..Len(ctx.tys) :
        call' = [op |-> "lookup_ty", index |-> index, ret |-> lookup_ty(ctx, index)]
    /\ UNCHANGED <<ctx, metaVars, sourceVars>>

\* The caller takes the result; the next call can start.
Return ==
    /\ call # NoCall
    /\ call' = NoCall
    /\ UNCHANGED <<ctx, metaVars, sourceVars>>

Next == AddDefn \/ AddParam \/ LookupTy \/ Return

Spec == ContextInit /\ [][Next]_vars

(***************************************************************************)
(* The validator: synth_term, check_term and expect_subtype called in the  *)
(* contexts reached from Context::new and Context::default                 *)
(***************************************************************************)
\* The sequences of at most n elements of S.
SeqsUpTo(S, n) == UNION {[1..k -> S] : k \in 0..n}

UniverseTerms == {Universe(level) : level \in 0..MaxLevel}

\* The identity function at universe 0, its type, and the one-binder term.
IdentityTy == FunType(Explicit, Universe(0), FunType(Explicit, Var(0), Var(1)))
Identity == FunIntro(Explicit, FunIntro(Explicit, Var(0)))
Lambda == FunIntro(Explicit, Var(0))

\* f32 bit patterns: +0.0, -0.0, 1.0, a quiet NaN and the same NaN negated.
PlusZero == LitF32(0, 0, 0)
MinusZero == LitF32(1, 0, 0)
OneF32 == LitF32(0, 127, 0)
NaN == LitF32(0, 255, 4194304)
MinusNaN == LitF32(1, 255, 4194304)
F32Patterns == {PlusZero, MinusZero, OneF32, NaN, MinusNaN}

\* Literal eliminations on a Bool scrutinee (a literal, or the variable 0 of
\* the context): the patterns are Bool and U8 literals in any order, and a
\* body is a U8 literal or, ill-typed where U8 is expected, a Bool literal.
BoolPatterns == {LitBool(FALSE), LitBool(TRUE), LitU8(0)}
ClauseBodies == {LiteralIntro(LitU8(1)), LiteralIntro(LitBool(TRUE))}
Scrutinees == {LiteralIntro(LitBool(TRUE)), Var(0)}
BoolElims ==
    {LiteralElim(scrutinee, clauses, LiteralIntro(LitU8(2))) :
        scrutinee \in Scrutinees,
        clauses \in SeqsUpTo(BoolPatterns \X ClauseBodies, MaxClauses)}

\* Literal eliminations on an f32 scrutinee, every pattern an f32 and every
\* body a U8 literal.
FloatElims ==
    {LiteralElim(LiteralIntro(OneF32), clauses, LiteralIntro(LitU8(2))) :
        clauses \in SeqsUpTo(F32Patterns \X {LiteralIntro(LitU8(1))}, MaxClauses)}

FunIntroTerms ==
    {FunIntro(mode, body) :
        mode \in {Explicit, Implicit("A")},
        body \in {Var(0), Universe(0), Lambda}}

RecordIntroTerms ==
    {RecordIntro(fields) :
        fields \in SeqsUpTo({"x", "y"} \X {Universe(0), LiteralIntro(LitU8(1))}, 2)}

\* A term of every other variant.
OtherTerms ==
    {Var(0), Var(1), Prim("u8-add"), Prim("nope"),
     Let(Universe(0), Universe(1), Var(0)),
     LiteralType("Bool"), LiteralIntro(LitBool(TRUE)),
     IdentityTy, FunElim(Var(0), Explicit, Universe(0)),
     RecordType(<< <<"", "x", Universe(0)>>, <<"", "y", Var(0)>> >>),
     RecordElim(Var(0), "y")}

SynthInputs ==
    UniverseTerms \cup FunIntroTerms \cup RecordIntroTerms \cup OtherTerms
    \cup {t \in BoolElims \cup FloatElims : Len(t.clauses) <= 1}

\* The types, as the terms the caller evaluates in the context.
TypeTerms ==
    UniverseTerms
    \cup {LiteralType("Bool"), LiteralType("U8"), IdentityTy, Var(0),
          RecordType(<<>>), RecordType(<< <<"", "x", Universe(1)>> >>)}

\* check_term's inputs: a term and the term of the expected type.
CheckInputs ==
    (UniverseTerms \X UniverseTerms)
    \cup ((BoolElims \cup FloatElims) \X {LiteralType("U8")})
    \cup ((FunIntroTerms \cup {Identity}) \X {IdentityTy, Universe(0)})
    \cup (RecordIntroTerms \X {RecordType(<<>>), RecordType(<< <<"", "x", Universe(1)>> >>)})
    \cup (OtherTerms \X {Universe(1), LiteralType("Bool")})

ValidateInit ==
    /\ MetaIdle
    /\ SourceIdle
    /\ ctx \in {ContextNew, ContextDefault}
    /\ call = NoCall

\* A binder is entered: a parameter of type Universe(0) is added.
ScopeParam ==
    /\ call = NoCall
    /\ CanGrow(ctx, MaxScope)
    /\ ctx' = add_param(ctx, VUniverse(0)).context
    /\ UNCHANGED <<call, metaVars, sourceVars>>

\* A definition is entered: Bool : Universe(0) is added.
ScopeDefn ==
    /\ call = NoCall
    /\ CanGrow(ctx, MaxScope)
    /\ ctx' = add_defn(ctx, VLiteralType("Bool"), VUniverse(0))
    /\ UNCHANGED <<call, metaVars, sourceVars>>

SynthTerm ==
    /\ call = NoCall
    /\ \E term \in SynthInputs :
        call' = [op |-> "synth_term", term |-> term, ret |-> synth_term(ctx, term)]
    /\ UNCHANGED <<ctx, metaVars, sourceVars>>

CheckTerm ==
    /\ call = NoCall
    /\ \E input \in CheckInputs :
        LET expected_ty == context_eval(ctx, input[2]) IN
        /\ IsOk(expected_ty)
        /\ call' = [op |-> "check_term", term |-> input[1],
                    expected_ty |-> expected_ty.val,
                    ret |-> check_term(ctx, input[1], expected_ty.val)]
    /\ UNCHANGED <<ctx, metaVars, sourceVars>>

ExpectSubtype ==
    /\ call = NoCall
    /\ \E term1 \in TypeTerms, term2 \in TypeTerms :
        LET ty1 == context_eval(ctx, term1)
            ty2 == context_eval(ctx, term2) IN
        /\ IsOk(ty1)
        /\ IsOk(ty2)
        /\ call' = [op |-> "expect_subtype", ty1 |-> ty1.val, ty2 |-> ty2.val,
                    ret |-> expect_subtype(ctx, ty1.val, ty2.val)]
    /\ UNCHANGED <<ctx, metaVars, sourceVars>>

ValidateNext ==
    ScopeParam \/ ScopeDefn \/ SynthTerm \/ CheckTerm \/ ExpectSubtype \/ Return

SpecValidate == ValidateInit /\ [][ValidateNext]_vars

(***************************************************************************)
(* The validator in contexts whose entries have function and record types: *)
(* variables, primitives, applications, projections, function types and    *)
(* the introductions checked against them                                  *)
(***************************************************************************)
\* Bool -> Bool, {A : Universe 0} -> A, and {x : Universe 0, y : x}.
FunTyExplicit == FunType(Explicit, LiteralType("Bool"), LiteralType("Bool"))
FunTyImplicit == FunType(Implicit("A"), Universe(0), Var(0))
RecordTy == RecordType(<< <<"", "x", Universe(0)>>, <<"", "y", Var(0)>> >>)

\* The types of the parameters bound, as the closed terms the caller
\* evaluates.
BindTypeTerms == {Universe(0), FunTyExplicit, FunTyImplicit, RecordTy}

\* The definitions bound: a closed term and the term of its type.
BindDefnTerms ==
    {<<LiteralType("Bool"), Universe(0)>>,
     <<RecordIntro(<< <<"x", LiteralType("Bool")>>,
                      <<"y", LiteralIntro(LitBool(TRUE))>> >>), RecordTy>>}

Modes == {Explicit, Implicit("A")}

VarTerms == {Var(index) : index \in 0..(MaxBound + 1)}
PrimTerms == {Prim("u8-add"), Prim("nope")}
FunElimTerms ==
    {FunElim(Var(index), mode, arg) :
        index \in 0..1, mode \in Modes,
        arg \in {LiteralIntro(LitBool(TRUE)), LiteralType("Bool"), Universe(0)}}
RecordElimTerms ==
    {RecordElim(Var(index), label) : index \in 0..1, label \in {"x", "y", "z"}}
FunTypeTerms ==
    {FunType(mode, param_ty, body_ty) :
        mode \in Modes,
        param_ty \in {Universe(0), Universe(1), LiteralType("Bool"),
                      LiteralIntro(LitBool(TRUE)), Var(0)},
        body_ty \in {Var(0), Universe(0), LiteralType("Bool"),
                     LiteralIntro(LitBool(TRUE))}}

\* synth_term's inputs.
SynthElimInputs ==
    VarTerms \cup PrimTerms \cup FunElimTerms \cup RecordElimTerms \cup FunTypeTerms

FieldTerms == {LiteralType("Bool"), LiteralType("U8"), LiteralIntro(LitBool(TRUE))}
RecordTypeTerms ==
    {RecordType(<<>>), RecordType(<< <<"", "x", Universe(0)>> >>), RecordTy}

\* check_term's inputs: a term and the closed term of the expected type.
CheckIntroInputs ==
    ({FunIntro(mode, body) :
        mode \in Modes,
        body \in {Var(0), LiteralIntro(LitBool(TRUE)), Universe(0)}}
     \X {FunTyExplicit, FunTyImplicit, Universe(0), LiteralType("Bool"), RecordTy})
    \cup ({RecordIntro(fields) : fields \in SeqsUpTo({"x", "y"} \X FieldTerms, 2)}
          \X RecordTypeTerms)
    \cup (PrimTerms \X {Universe(0), LiteralType("Bool"), FunTyExplicit})

TypedInit ==
    /\ MetaIdle
    /\ SourceIdle
    /\ ctx \in {ContextNew, ContextDefault}
    /\ call = NoCall

\* Context::add_param of the value of one of the types.
BindParam ==
    /\ call = NoCall
    /\ CanGrow(ctx, MaxBound)
    /\ \E ty_term \in BindTypeTerms :
        /\ ctx' = add_param(ctx, context_eval(ctx, ty_term).val).context
        /\ call' = [op |-> "add_param", ty |-> context_eval(ctx, ty_term).val,
                    ret |-> add_param(ctx, context_eval(ctx, ty_term).val).param]
    /\ UNCHANGED <<metaVars, sourceVars>>

\* Context::add_defn of the value of one of the definitions.
BindDefn ==
    /\ call = NoCall
    /\ CanGrow(ctx, MaxBound)
    /\ \E defn \in BindDefnTerms :
        /\ ctx' = add_defn(ctx, context_eval(ctx, defn[1]).val,
                           context_eval(ctx, defn[2]).val)
        /\ call' = [op |-> "add_defn", value |-> context_eval(ctx, defn[1]).val,
                    ty |-> context_eval(ctx, defn[2]).val]
    /\ UNCHANGED <<metaVars, sourceVars>>

SynthElim ==
    /\ call = NoCall
    /\ \E term \in SynthElimInputs :
        call' = [op |-> "synth_term", term |-> term, ret |-> synth_term(ctx, term)]
    /\ UNCHANGED <<ctx, metaVars, sourceVars>>

CheckIntro ==
    /\ call = NoCall
    /\ \E input \in CheckIntroInputs :
        call' = [op |-> "check_term", term |-> input[1], ty_term |-> input[2],
                 expected_ty |-> context_eval(ctx, input[2]).val,
                 ret |-> check_term(ctx, input[1], context_eval(ctx, input[2]).val)]
    /\ UNCHANGED <<ctx, metaVars, sourceVars>>

TypedNext == BindParam \/ BindDefn \/ SynthElim \/ CheckIntro \/ Return

SpecTyped == TypedInit /\ [][TypedNext]_vars

(***************************************************************************)
(* Errors: check_module on modules whose items fail in different ways,     *)
(* check_term and synth_term on Let terms whose parts fail, and check_term *)
(* against a function type whose closure cannot be evaluated               *)
(***************************************************************************)
\* Items <<label, term_ty, term>>: a : Universe 0 = Bool, which checks;
\* b : (the item before it) = true, which checks after a; c, whose type is
\* not a type; d, whose term is not of its type; e, a function declared
\* at a universe; and u : Universe 0 = U8, which checks.
ModuleItems ==
    {<<"a", Universe(0), LiteralType("Bool")>>,
     <<"b", Var(0), LiteralIntro(LitBool(TRUE))>>,
     <<"c", LiteralIntro(LitBool(TRUE)), Universe(0)>>,
     <<"d", Universe(0), LiteralIntro(LitBool(TRUE))>>,
     <<"e", Universe(1), FunIntro(Explicit, Var(0))>>,
     <<"u", Universe(0), LiteralType("U8")>>}

Modules == SeqsUpTo(ModuleItems, MaxItems)

LetTerms ==
    {Let(def, def_ty, body) :
        def \in {LiteralType("Bool"), LiteralIntro(LitBool(TRUE)), Var(0)},
        def_ty \in {Universe(0), Var(0), LiteralIntro(LitBool(TRUE)), LiteralType("Bool")},
        body \in {Var(0), Universe(0), FunIntro(Explicit, Var(0))}}

LetExpectedTypes == {VUniverse(0), VUniverse(1), VLiteralType("Bool")}

\* A function type whose body closure reads a variable its environment
\* does not hold.
MalformedFunTy == VFunType(Explicit, VUniverse(0), Closure(Var(1), EnvNew))

ModuleInit ==
    /\ MetaIdle
    /\ SourceIdle
    /\ ctx \in {ContextNew, ContextDefault}
    /\ call = NoCall

CheckModule ==
    /\ call = NoCall
    /\ \E module \in Modules :
        call' = [op |-> "check_module", module |-> module,
                 ret |-> check_module(ctx, module)]
    /\ UNCHANGED <<ctx, metaVars, sourceVars>>

CheckLet ==
    /\ call = NoCall
    /\ \E term \in LetTerms, expected_ty \in LetExpectedTypes :
        call' = [op |-> "check_term", term |-> term, expected_ty |-> expected_ty,
                 ret |-> check_term(ctx, term, expected_ty)]
    /\ UNCHANGED <<ctx, metaVars, sourceVars>>

SynthLet ==
    /\ call = NoCall
    /\ \E term \in LetTerms :
        call' = [op |-> "synth_term", term |-> term, ret |-> synth_term(ctx, term)]
    /\ UNCHANGED <<ctx, metaVars, sourceVars>>

CheckMalformed ==
    /\ call = NoCall
    /\ \E body \in {Var(0), Universe(0)} :
        call' = [op |-> "check_term", term |-> FunIntro(Explicit, body),
                 expected_ty |-> MalformedFunTy,
                 ret |-> check_term(ctx, FunIntro(Explicit, body), MalformedFunTy)]
    /\ UNCHANGED <<ctx, metaVars, sourceVars>>

ModuleNext == CheckModule \/ CheckLet \/ SynthLet \/ CheckMalformed \/ Return

SpecModule == ModuleInit /\ [][ModuleNext]_vars

(***************************************************************************)
(* Normalization by evaluation: normalization of validated terms,         *)
(* expect_subtype on chains of three types, and conversion of a function   *)
(* with its eta-expansion, in contexts that bind parameters                *)
(***************************************************************************)
\* The parameters bound, outermost first, as the terms of their types: a
\* type A, a Bool, functions f, a record r, and scopes of two.
NbeScopes ==
    {<<>>,
     <<Universe(0)>>,
     <<LiteralType("Bool")>>,
     <<FunTyExplicit>>,
     <<FunTyImplicit>>,
     <<IdentityTy>>,
     <<FunType(Explicit, FunTyExplicit, LiteralType("Bool"))>>,
     <<RecordTy>>,
     <<FunTyExplicit, LiteralType("Bool")>>,
     <<Universe(0), Var(0)>>,
     <<Universe(0), FunType(Explicit, Var(0), Var(1))>>,
     <<Universe(0), IdentityTy>>}

RECURSIVE bind_params(_, _)
\* Context::add_param of the value of each type, in order.
bind_params(context, ty_terms) ==
    IF ty_terms = <<>> THEN context
    ELSE bind_params(add_param(context, context_eval(context, Head(ty_terms)).val).context,
                     Tail(ty_terms))

\* Functions f, each with the same function under one more binder.
EtaFuns ==
    {<<Var(0), Var(1)>>,
     <<Var(1), Var(2)>>,
     <<FunElim(Var(0), Explicit, Var(1)), FunElim(Var(1), Explicit, Var(2))>>,
     <<Let(Lambda, FunTyExplicit, Var(0)), Let(Lambda, FunTyExplicit, Var(0))>>}

\* Terms that reduce: a function applied, a record projected, a literal
\* matched.
RedexTerms ==
    {Let(Lambda, FunTyExplicit, FunElim(Var(0), Explicit, LiteralIntro(LitBool(TRUE)))),
     Let(RecordIntro(<< <<"x", LiteralType("Bool")>>,
                        <<"y", LiteralIntro(LitBool(TRUE))>> >>), RecordTy,
         RecordElim(Var(0), "y")),
     Let(LiteralIntro(LitBool(TRUE)), LiteralType("Bool"), Var(0)),
     Let(Lambda, FunTyExplicit,
         FunElim(Var(1), Explicit, FunElim(Var(0), Explicit, LiteralIntro(LitBool(TRUE))))),
     LiteralIntro(LitU8(1))}

NormSynthTerms ==
    SynthElimInputs \cup UniverseTerms \cup RecordTypeTerms \cup RedexTerms
    \cup {fun[1] : fun \in EtaFuns}

BoolToU8 == FunType(Explicit, LiteralType("Bool"), LiteralType("U8"))
BoolCase(scrutinee) ==
    LiteralElim(scrutinee,
                << <<LitBool(FALSE), LiteralIntro(LitU8(0))>>,
                   <<LitBool(TRUE), LiteralIntro(LitU8(1))>> >>,
                LiteralIntro(LitU8(2)))

\* Terms that only check, each with the term of its type.
NormCheckInputs ==
    CheckIntroInputs
    \cup {<<Identity, IdentityTy>>,
          <<FunIntro(Explicit, BoolCase(Var(0))), BoolToU8>>,
          <<BoolCase(Var(0)), LiteralType("U8")>>,
          <<BoolCase(LiteralIntro(LitBool(TRUE))), LiteralType("U8")>>,
          <<FunIntro(Explicit, FunElim(Var(1), Explicit, Var(0))), FunTyExplicit>>}

\* The types compared: universes, literal types, function types whose
\* domains and codomains are universes, dependent function types of both
\* modes, record types, and the innermost variable.
SubtypeTerms ==
    UniverseTerms
    \cup {LiteralType("Bool"), Var(0)}
    \cup {FunType(Explicit, Universe(i), Universe(j)) : i, j \in 0..1}
    \cup {FunType(mode, Universe(0), Var(0)) : mode \in Modes}
    \cup {RecordType(<<>>), RecordTy,
          RecordType(<< <<"", "x", Universe(0)>> >>),
          RecordType(<< <<"", "x", Universe(1)>> >>),
          RecordType(<< <<"", "x", Universe(1)>>, <<"", "y", Var(0)>> >>)}

NbeInit ==
    /\ MetaIdle
    /\ SourceIdle
    /\ ctx \in {bind_params(context, scope) :
                    context \in {ContextNew, ContextDefault}, scope \in NbeScopes}
    /\ call = NoCall

\* A term that synthesizes a type, normalized.
NormalizeSynth ==
    /\ call = NoCall
    /\ \E term \in NormSynthTerms :
        /\ IsOk(synth_term(ctx, term))
        /\ call' = [op |-> "normalize", term |-> term,
                    ret |-> normalize(ctx.prims, ctx.values, term)]
    /\ UNCHANGED <<ctx, metaVars, sourceVars>>

\* A term that checks against a type, normalized.
NormalizeChecked ==
    /\ call = NoCall
    /\ \E input \in NormCheckInputs :
        /\ IsOk(synth_universe(ctx, input[2]))
        /\ check_term(ctx, input[1], context_eval(ctx, input[2]).val) = Ok(Unit)
        /\ call' = [op |-> "normalize", term |-> input[1],
                    ret |-> normalize(ctx.prims, ctx.values, input[1])]
    /\ UNCHANGED <<ctx, metaVars, sourceVars>>

\* Context::expect_subtype on three types, each with itself and each with
\* the next.
SubtypeChain ==
    /\ call = NoCall
    /\ \E a \in SubtypeTerms, b \in SubtypeTerms, c \in SubtypeTerms :
        /\ \A ty_term \in {a, b, c} : IsOk(synth_universe(ctx, ty_term))
        /\ call' = [op |-> "expect_subtype",
                    ty_terms |-> <<a, b, c>>,
                    tys |-> <<context_eval(ctx, a).val, context_eval(ctx, b).val,
                              context_eval(ctx, c).val>>,
                    ret |-> [aa |-> expect_subtype(ctx, context_eval(ctx, a).val,
                                                   context_eval(ctx, a).val),
                             ab |-> expect_subtype(ctx, context_eval(ctx, a).val,
                                                   context_eval(ctx, b).val),
                             bc |-> expect_subtype(ctx, context_eval(ctx, b).val,
                                                   context_eval(ctx, c).val),
                             ac |-> expect_subtype(ctx, context_eval(ctx, a).val,
                                                   context_eval(ctx, c).val)]]
    /\ UNCHANGED <<ctx, metaVars, sourceVars>>

\* The eta-expansion of f at a function type of the mode.
EtaExpansion(fun, mode) == FunIntro(mode, FunElim(fun[2], mode, Var(0)))

\* Conversion, at the type f synthesizes, of the value of the eta-expansion
\* of f and the value of f.
EtaConvert ==
    /\ call = NoCall
    /\ \E fun \in EtaFuns :
        /\ IsOk(synth_term(ctx, fun[1]))
        /\ synth_term(ctx, fun[1]).val.tag = "FunType"
        /\ call' = [op |-> "check_equal_at",
                    ty |-> synth_term(ctx, fun[1]).val,
                    fun |-> context_eval(ctx, fun[1]).val,
                    eta |-> context_eval(ctx,
                               EtaExpansion(fun, synth_term(ctx, fun[1]).val.mode)).val,
                    ret |-> check_equal_at(ctx.prims, EnvLevel(ctx.values),
                               synth_term(ctx, fun[1]).val,
                               context_eval(ctx,
                                   EtaExpansion(fun, synth_term(ctx, fun[1]).val.mode)).val,
                               context_eval(ctx, fun[1]).val)]
    /\ UNCHANGED <<ctx, metaVars, sourceVars>>

NbeNext == NormalizeSynth \/ NormalizeChecked \/ SubtypeChain \/ EtaConvert \/ Return

SpecNbe == NbeInit /\ [][NbeNext]_vars

(***************************************************************************)
(* Evaluation of literal eliminations: Context::eval on eliminations of a  *)
(* literal and of the innermost variable, the clauses in any order         *)
(***************************************************************************)
\* Literal eliminations on an f32 scrutinee that is a NaN or a zero.
FloatScrutineeElims ==
    {LiteralElim(LiteralIntro(scrutinee), clauses, LiteralIntro(LitU8(2))) :
        scrutinee \in {NaN, MinusZero},
        clauses \in SeqsUpTo(F32Patterns \X {LiteralIntro(LitU8(1))}, 2)}

EvalElims ==
    BoolElims \cup FloatElims \cup FloatScrutineeElims
    \cup {BoolCase(scrutinee) : scrutinee \in Scrutinees}

\* Context::new and Context::default, each as it is and under a Bool
\* parameter.
EvalInit ==
    /\ MetaIdle
    /\ SourceIdle
    /\ ctx \in {bind_params(context, scope) :
                    context \in {ContextNew, ContextDefault},
                    scope \in {<<>>, <<LiteralType("Bool")>>}}
    /\ call = NoCall

EvalLiteralElim ==
    /\ call = NoCall
    /\ \E term \in EvalElims :
        call' = [op |-> "eval", term |-> term, ret |-> context_eval(ctx, term)]
    /\ UNCHANGED <<ctx, metaVars, sourceVars>>

EvalNext == EvalLiteralElim \/ Return

SpecEval == EvalInit /\ [][EvalNext]_vars

(***************************************************************************)
(* The lexer: the tests' macro adds a source to new files, makes a lexer   *)
(* of it and collects what it returns                                      *)
(***************************************************************************)
\* Characters of every kind the lexer distinguishes but the delimiters, the
\* radix letters o and x and the characters it rejects.
LexAlphabet == {" ", "\n", "0", "1", "b", "a", "-", ".", "\"", "'", "\\"}

\* Longer sources, among them those of the tests.
LexExamples ==
    {<<"0", "o">>, <<"0", "x">>, <<"0", "o", "7">>, <<"0", "x", "1", "A", "F">>,
     <<"0", "o", "8">>, <<"0", "x", "g">>, <<"0", "b", "2">>, <<"0", "b", " ", "1">>,
     <<" ", "0", "b", "0", "1", "0", " ">>,
     <<"(", ")", "{", "}", "[", "]">>,
     <<"#">>, <<"a", "#", "a">>,
     <<"|", "|", "|", " ", "a", "\n", "a">>,
     <<" ", "-", "-", " ", "a", "\n", " ", "a">>,
     <<"1", "2", ".", "3", "4", " ">>,
     <<"'", "\\", "t", "'", " ", "'", "a", "'">>,
     <<"\"", "\\", "t", "\"", " ", "\"", "a", "\"">>,
     <<"-", ">", " ", "=", ">", " ", "?">>,
     <<"a", "-", "b", "8", "_", " ", "A">>}

LexSources == SeqsUpTo(LexAlphabet, MaxChars) \cup LexExamples

\* Files::new, Files::add("test", src) and Lexer::new(&files[file_id]).
LexerInit ==
    /\ MetaIdle
    /\ ctx = ContextNew
    /\ call = NoCall
    /\ \E src \in LexSources :
        /\ files = files_add(FilesNew, "test", src).files
        /\ lexer = LexerNew(files_index(files_add(FilesNew, "test", src).files,
                                        files_add(FilesNew, "test", src).file_id))
    /\ lexed = <<>>

\* One call of the iterator, made until it returns None.
LexerNext ==
    /\ lexer # None
    /\ \A i \in 1..Len(lexed) : lexed[i] # None
    /\ lexer' = next(lexer).lexer
    /\ lexed' = Append(lexed, next(lexer).ret)
    /\ UNCHANGED <<files, checkVars, metaVars>>

SpecLexer == LexerInit /\ [][LexerNext]_vars

\* The tests collect the iterator: it is called as long as it returns Some.
SpecLexerFair == SpecLexer /\ WF_vars(LexerNext)

(***************************************************************************)
(* Files: a source is added to files that are new or hold a file already,  *)
(* and byte indices and locations are looked up                            *)
(***************************************************************************)
FileSources == SeqsUpTo({"a", "\n"}, MaxSource)

FilesInit ==
    /\ MetaIdle
    /\ ctx = ContextNew
    /\ call = NoCall
    /\ files \in {FilesNew,
                  files_add(FilesNew, "prelude", <<"a", "b", "\n", "c", "\n">>).files}
    /\ lexer = None
    /\ lexed = <<>>

\* Files::add of the file named test, once.
FilesAdd ==
    /\ \A i \in 1..Len(files) : files[i].name # "test"
    /\ \E contents \in FileSources :
        /\ files' = files_add(files, "test", contents).files
        /\ call' = [op |-> "add", ret |-> files_add(files, "test", contents).file_id]
    /\ UNCHANGED <<ctx, lexer, lexed, metaVars>>

\* Files::location
FilesLocation ==
    /\ \E file_id \in 0..(Len(files) - 1) :
       \E byte \in 0..Len(files_index(files, file_id).contents) :
        call' = [op |-> "location", file_id |-> file_id, byte |-> byte,
                 ret |-> location(files, file_id, byte)]
    /\ UNCHANGED <<files, ctx, lexer, lexed, metaVars>>

\* Files::byte_index
FilesByteIndex ==
    /\ \E file_id \in 0..(Len(files) - 1) :
       \E line \in 0..Len(files_index(files, file_id).contents),
          column \in 0..Len(files_index(files, file_id).contents) :
        call' = [op |-> "byte_index", file_id |-> file_id, line |-> line,
                 column |-> column,
                 ret |-> byte_index(files, file_id, line, column)]
    /\ UNCHANGED <<files, ctx, lexer, lexed, metaVars>>

FilesNext == FilesAdd \/ FilesLocation \/ FilesByteIndex

SpecFiles == FilesInit /\ [][FilesNext]_vars

(***************************************************************************)
(* Properties of the metavariable environment, under SpecMeta              *)
(***************************************************************************)
\* Whether slot `index` holds Solved(v).
IsSolvedWith(sols, index, v) ==
    /\ lookup_solution(sols, index).tag = "Some"
    /\ lookup_solution(sols, index).some[2] = Solved(v)

\* C1: metavariable monotonicity.  A call add_solved(i, v) that succeeds
\* leaves lookup_solution(i) returning Solved(v), whatever the slot's span;
\* a slot that lookup_solution reports as Solved(v) is reported as Solved(v),
\* with the same span, after every further call; and the result a
\* lookup_solution call hands back is the slot's entry.
C1_SolvedStaysSolved ==
    [][/\ (metaCall'.op = "add_solved" /\ metaPanic' = "none")
            => IsSolvedWith(solutions', metaCall'.index, metaCall'.solved)
       /\ \A index \in 0..MaxSlots, v \in SolvedValues :
            IsSolvedWith(solutions, index, v)
                => lookup_solution(solutions', index) = lookup_solution(solutions, index)
       /\ metaCall'.op = "lookup_solution"
            => metaCall'.ret = Get(solutions', metaCall'.index)]_vars

\* Slot 0 was solved with v1, a later slot was allocated and solved with v2,
\* and a lookup of slot 0 made after that returned Solved(v1).
C1_Witness ==
    /\ metaCall.op = "lookup_solution"
    /\ metaCall.index = 0
    /\ metaCall.ret.tag = "Some"
    /\ metaCall.ret.some[2] = Solved("v1")
    /\ Len(solutions) >= 2
    /\ solutions[2][2] = Solved("v2")

\* C2: add_solved(i, w) on a slot that is already Solved(v) panics with
\* "updating solved solution" and leaves the environment as it was.
C2_DoubleSolveAborts ==
    [][(/\ metaCall'.op = "add_solved"
        /\ lookup_solution(solutions, metaCall'.index).tag = "Some"
        /\ lookup_solution(solutions, metaCall'.index).some[2].tag = "Solved")
            => /\ metaPanic' = "updating solved solution"
               /\ solutions' = solutions]_vars

\* add_solved(0, v2) was called on slot 0 holding Solved(v1): the program
\* panicked and the slot still holds Solved(v1).
C2_Witness ==
    /\ metaPanic = "updating solved solution"
    /\ metaCall.op = "add_solved"
    /\ metaCall.index = 0
    /\ metaCall.solved = "v2"
    /\ IsSolvedWith(solutions, 0, "v1")

\* C3: slots are append-only.  add_unsolved returns the number of slots
\* allocated before the call, which no earlier slot has as its index; it
\* appends one Unsolved slot with the given span and changes no slot that
\* was there; and no call makes the number of slots smaller or changes the
\* span of a slot.
C3_AppendOnly ==
    [][/\ metaCall'.op = "add_unsolved"
            => /\ metaCall'.index = Len(solutions)
               /\ lookup_solution(solutions, metaCall'.index) = None
               /\ Len(solutions') = Len(solutions) + 1
               /\ solutions'[Len(solutions')] = <<metaCall'.span, Unsolved>>
               /\ \A i \in 1..Len(solutions) : solutions'[i] = solutions[i]
       /\ Len(solutions') >= Len(solutions)
       /\ \A i \in 1..Len(solutions) : solutions'[i][1] = solutions[i][1]]_vars

\* The third add_unsolved returned index 2, next to a slot solved earlier.
C3_Witness ==
    /\ metaCall.op = "add_unsolved"
    /\ metaCall.index = 2
    /\ Len(solutions) = 3
    /\ solutions[3] = <<metaCall.span, Unsolved>>
    /\ solutions[1][2].tag = "Solved"

(***************************************************************************)
(* Properties of the context, under Spec                                   *)
(***************************************************************************)
\* C4: in every context reached from Context::new or Context::default by
\* add_defn and add_param, the value environment and the types vector hold
\* the same number of entries.
C4_ValuesMatchTypes == Len(ctx.values) = Len(ctx.tys)

\* Context::default with a definition and then a parameter added.
C4_Witness ==
    /\ ctx.prims = PrimEnvDefault
    /\ Len(ctx.tys) = Len(DefaultDefns) + 2
    /\ ctx.values[1].tag = "Neutral"
    /\ ctx.values[2] = VLiteralType("Bool")
    /\ call.op = "add_param"

\* C5: index/level duality.  add_param on a context of length n returns the
\* neutral variable at level n; after add_param or add_defn of a type,
\* lookup_ty(0) returns that type and lookup_ty(i + 1) returns what
\* lookup_ty(i) returned before, so index i is the (i+1)-th most recent
\* entry; lookup_ty past the last entry returns None.
C5_IndexLevelDuality ==
    [][/\ call'.op = "add_param" => call'.ret = ValueVar(Len(ctx.tys))
       /\ call'.op \in {"add_param", "add_defn"}
            => /\ lookup_ty(ctx', 0) = Some(call'.ty)
               /\ \A i \in 0..Len(ctx.tys) :
                    lookup_ty(ctx', i + 1) = lookup_ty(ctx, i)
       /\ call'.op = "lookup_ty"
            => /\ call'.ret = lookup_ty(ctx', call'.index)
               /\ (call'.ret = None) = (call'.index >= Len(ctx'.tys))]_vars

\* The source's test add_params: Universe 0, 1, 2 pushed onto an empty
\* context; the third parameter is level 2 and indices 0, 1, 2 give
\* Universe 2, 1, 0.
C5_Witness ==
    /\ ctx.prims = PrimEnvNew
    /\ call.op = "add_param"
    /\ call.ret = ValueVar(2)
    /\ ctx.values = <<ValueVar(2), ValueVar(1), ValueVar(0)>>
    /\ lookup_ty(ctx, 0) = Some(VUniverse(2))
    /\ lookup_ty(ctx, 1) = Some(VUniverse(1))
    /\ lookup_ty(ctx, 2) = Some(VUniverse(0))

(***************************************************************************)
(* Properties of the validator, under SpecValidate                         *)
(***************************************************************************)
\* C6: cumulativity.  expect_subtype(Universe(i), Universe(j)) returns Ok
\* when i <= j and ExpectedSubtype(Universe(i), Universe(j)) otherwise.
C6_Cumulativity ==
    (/\ call.op = "expect_subtype"
     /\ call.ty1.tag = "Universe"
     /\ call.ty2.tag = "Universe")
        => call.ret = IF call.ty1.level <= call.ty2.level
                      THEN Ok(Unit)
                      ELSE Err(ExpectedSubtype(VUniverse(call.ty1.level),
                                               VUniverse(call.ty2.level)))

\* expect_subtype(Universe(2), Universe(1)) was called under a binder and
\* returned ExpectedSubtype.
C6_Witness ==
    /\ call.op = "expect_subtype"
    /\ call.ty1 = VUniverse(2)
    /\ call.ty2 = VUniverse(1)
    /\ call.ret = Err(ExpectedSubtype(VUniverse(2), VUniverse(1)))
    /\ Len(ctx.tys) > 0

\* C7: in every context synth_term(Universe(i)) returns Universe(i + 1), and
\* check_term(Universe(i), Universe(j)) returns Ok when i + 1 <= j and
\* ExpectedSubtype(Universe(i + 1), Universe(j)) otherwise.
C7_UniverseSynthAndCheck ==
    /\ (call.op = "synth_term" /\ call.term.tag = "Universe")
        => call.ret = Ok(VUniverse(call.term.level + 1))
    /\ (/\ call.op = "check_term"
        /\ call.term.tag = "Universe"
        /\ call.expected_ty.tag = "Universe")
        => call.ret = IF call.term.level + 1 <= call.expected_ty.level
                      THEN Ok(Unit)
                      ELSE Err(ExpectedSubtype(VUniverse(call.term.level + 1),
                                               call.expected_ty))

\* check_term(Universe(0), Universe(2)) returned Ok in Context::default.
C7_Witness ==
    /\ call.op = "check_term"
    /\ call.term = Universe(0)
    /\ call.expected_ty = VUniverse(2)
    /\ call.ret = Ok(Unit)
    /\ ctx.prims = PrimEnvDefault

\* The literals of a clause list are strictly ascending: each is less than
\* every literal after it.
C8_StrictlyAscending(clauses) ==
    \A i \in 1..Len(clauses), j \in 1..Len(clauses) :
        i < j => literal_partial_cmp(clauses[i][1], clauses[j][1]) = "Less"

\* Some adjacent pair of patterns is equal or descending.
C8_AdjacentPairOutOfOrder(clauses) ==
    \E i \in 1..(Len(clauses) - 1) :
        literal_partial_cmp(clauses[i][1], clauses[i + 1][1]) # "Less"

\* C8: check_term on a LiteralElim whose scrutinee synthesizes returns
\* BadLiteralPatterns with every clause literal in clause order when some
\* adjacent pair of patterns is equal or descending, whatever the clause
\* bodies are (an ill-typed body is not reported first); and it returns Ok
\* only when the patterns are strictly ascending.
C8_UnsortedPatternsRejected ==
    (call.op = "check_term" /\ call.term.tag = "LiteralElim")
        => /\ (/\ IsOk(synth_term(ctx, call.term.scrutinee))
               /\ C8_AdjacentPairOutOfOrder(call.term.clauses))
                => call.ret = Err(BadLiteralPatterns(
                        [i \in 1..Len(call.term.clauses) |-> call.term.clauses[i][1]]))
           /\ IsOk(call.ret) => C8_StrictlyAscending(call.term.clauses)

\* The clauses [(true, ...), (false, ...)], the first with a body that is
\* not of the expected type, were rejected with BadLiteralPatterns.
C8_Witness ==
    /\ call.op = "check_term"
    /\ call.term = LiteralElim(LiteralIntro(LitBool(TRUE)),
                               << <<LitBool(TRUE), LiteralIntro(LitBool(TRUE))>>,
                                  <<LitBool(FALSE), LiteralIntro(LitU8(1))>> >>,
                               LiteralIntro(LitU8(2)))
    /\ call.ret = Err(BadLiteralPatterns(<<LitBool(TRUE), LitBool(FALSE)>>))

\* The order of two f32 bit patterns <<sign, exponent, mantissa>> as
\* unsigned 32-bit numbers.
C9_BitsLess(p1, p2) ==
    \/ p1[1] < p2[1]
    \/ p1[1] = p2[1] /\ p1[2] < p2[2]
    \/ p1[1] = p2[1] /\ p1[2] = p2[2] /\ p1[3] < p2[3]

\* A literal elimination on an f32 scrutinee whose patterns are all f32.
C9_IsFloatElim(term) ==
    /\ term.tag = "LiteralElim"
    /\ term.scrutinee.tag = "LiteralIntro"
    /\ term.scrutinee.lit.kind = "F32"
    /\ \A i \in 1..Len(term.clauses) : term.clauses[i][1].kind = "F32"

C10_CheckableOnly ==
    /\ (call.op = "synth_term" /\ call.term.tag \in {"FunIntro", "LiteralElim"})
        => call.ret = Err(AmbiguousTerm(call.term))
    /\ (call.op = "synth_term" /\ call.term.tag = "RecordIntro")
        => call.ret = IF call.term.intro_fields = <<>>
                      THEN Ok(VRecordTypeEmpty)
                      ELSE Err(AmbiguousTerm(call.term))

\* check_term was called with `term` against the value of
\* Pi (A : Universe 0). A -> A in the context.
C10_CheckedAgainstIdentityTy(term) ==
    /\ call.op = "check_term"
    /\ call.term = term
    /\ call.expected_ty = context_eval(ctx, IdentityTy).val

\* C10 as stated: synth_term is ambiguous on every FunIntro, LiteralElim and
\* non-empty RecordIntro, the empty RecordIntro synthesizes RecordTypeEmpty,
\* and check_term of the one-binder identity \x. x against
\* Pi (A : Universe 0). A -> A succeeds.
C10_LambdaChecks ==
    /\ C10_CheckableOnly
    /\ C10_CheckedAgainstIdentityTy(Lambda) => call.ret = Ok(Unit)

\* C10, corrected: synth_term is ambiguous on every FunIntro, LiteralElim
\* and non-empty RecordIntro, and the empty RecordIntro synthesizes
\* RecordTypeEmpty; against Pi (A : Universe 0). A -> A it is the two-binder
\* identity \A. \x. x that check_term accepts, while \x. x, whose body is
\* the variable of type Universe 0 checked against A -> A, is rejected with
\* ExpectedSubtype(Universe 0, A -> A).
C10_PolymorphicIdentityChecks ==
    /\ C10_CheckableOnly
    /\ C10_CheckedAgainstIdentityTy(Identity) => call.ret = Ok(Unit)
    /\ C10_CheckedAgainstIdentityTy(Lambda)
        => /\ IsErr(call.ret)
           /\ call.ret.err.tag = "ExpectedSubtype"
           /\ call.ret.err.ty1 = VUniverse(0)
           /\ call.ret.err.ty2.tag = "FunType"

\* \A. \x. x was accepted against Pi (A : Universe 0). A -> A under a binder.
C10_Witness ==
    /\ C10_CheckedAgainstIdentityTy(Identity)
    /\ call.ret = Ok(Unit)
    /\ Len(ctx.tys) > 0

(***************************************************************************)
(* Properties of the validator, under SpecTyped                            *)
(***************************************************************************)
\* C11: application modes must match exactly.  check_term of a FunIntro of
\* mode m against a FunType of another mode m2 returns
\* UnexpectedAppMode(found m, expected m2), and against a type that is not a
\* FunType it returns ExpectedFunType(found the type); synth_term of a
\* FunElim of mode m whose head synthesizes a FunType of another mode m2
\* returns UnexpectedAppMode(found m, expected m2), and when the head
\* synthesizes a type that is not a FunType it returns ExpectedFunType(found
\* that type).  The body and the argument, well-typed or not, do not change
\* the result.
C11_AppModesMatch ==
    /\ (call.op = "check_term" /\ call.term.tag = "FunIntro")
        => /\ (call.expected_ty.tag = "FunType"
                /\ call.expected_ty.mode # call.term.mode)
                => call.ret = Err(UnexpectedAppMode(call.term.mode,
                                                    call.expected_ty.mode))
           /\ call.expected_ty.tag # "FunType"
                => call.ret = Err(ExpectedFunType(call.expected_ty))
    /\ (/\ call.op = "synth_term"
        /\ call.term.tag = "FunElim"
        /\ IsOk(synth_term(ctx, call.term.fun)))
        => /\ (synth_term(ctx, call.term.fun).val.tag = "FunType"
                /\ synth_term(ctx, call.term.fun).val.mode # call.term.mode)
                => call.ret = Err(UnexpectedAppMode(
                                    call.term.mode,
                                    synth_term(ctx, call.term.fun).val.mode))
           /\ synth_term(ctx, call.term.fun).val.tag # "FunType"
                => call.ret = Err(ExpectedFunType(synth_term(ctx, call.term.fun).val))

\* An implicit application of a variable of type Bool -> Bool to
\* Universe 0, which is not a Bool, returned UnexpectedAppMode.
C11_Witness ==
    /\ call.op = "synth_term"
    /\ call.term = FunElim(Var(0), Implicit("A"), Universe(0))
    /\ Len(ctx.tys) > 0
    /\ ctx.tys[1].tag = "FunType"
    /\ ctx.tys[1].vparam_ty = VLiteralType("Bool")
    /\ call.ret = Err(UnexpectedAppMode(Implicit("A"), Explicit))

\* C12: synth_term of a FunType.  When the parameter type synthesizes
\* Universe(i) and the body type, in the context extended with a parameter
\* of the value of the parameter type, synthesizes Universe(j), the result
\* is Universe(max(i, j)); when either synthesizes a type that is not a
\* universe the result is ExpectedUniverse(found that type); and when either
\* fails to synthesize, the result is its error.
C12_FunTypeLevel ==
    (call.op = "synth_term" /\ call.term.tag = "FunType")
        => LET param == synth_term(ctx, call.term.param_ty)
               param_ty_value == context_eval(ctx, call.term.param_ty)
               body == synth_term(add_param(ctx, param_ty_value.val).context,
                                  call.term.body_ty)
           IN  IF IsErr(param) THEN call.ret = param
               ELSE IF param.val.tag # "Universe"
               THEN call.ret = Err(ExpectedUniverse(param.val))
               ELSE IF IsErr(param_ty_value)
               THEN call.ret = Err(Nbe(param_ty_value.err))
               ELSE IF IsErr(body) THEN call.ret = body
               ELSE IF body.val.tag # "Universe"
               THEN call.ret = Err(ExpectedUniverse(body.val))
               ELSE call.ret = Ok(VUniverse(IF param.val.level >= body.val.level
                                            THEN param.val.level
                                            ELSE body.val.level))

\* (A : Universe 1) -> A in the empty context: the parameter type is at
\* level 2, the body type is the parameter itself, at level 1, and the
\* result is Universe 2.
C12_Witness ==
    /\ call.op = "synth_term"
    /\ call.term = FunType(Explicit, Universe(1), Var(0))
    /\ ctx.tys = <<>>
    /\ call.ret = Ok(VUniverse(2))

\* The labels of a record intro term and of a record type term, in order.
C13_IntroLabels(term) ==
    [i \in 1..Len(term.intro_fields) |-> term.intro_fields[i][1]]
C13_TypeLabels(ty_term) ==
    [i \in 1..Len(ty_term.ty_fields) |-> ty_term.ty_fields[i][2]]

\* The positions at which both label lists have a label and the two differ.
C13_Differing(found, expected) ==
    {k \in 1..Len(found) : k <= Len(expected) /\ found[k] # expected[k]}

\* The least position of a non-empty set of positions.
C13_First(positions) == CHOOSE k \in positions : \A j \in positions : k <= j

\* What the labels alone decide: the first differing label, else the
\* longer list.
C13_LabelOutcome(found, expected) ==
    IF C13_Differing(found, expected) # {}
    THEN Err(UnexpectedField(found[C13_First(C13_Differing(found, expected))],
                             expected[C13_First(C13_Differing(found, expected))]))
    ELSE IF Len(found) > Len(expected) THEN Err(TooManyFieldsFound)
    ELSE IF Len(found) < Len(expected) THEN Err(NotEnoughFieldsProvided)
    ELSE Ok(Unit)

\* The number of intro fields whose terms are checked before the labels
\* decide.
C13_FieldsChecked(found, expected) ==
    IF C13_Differing(found, expected) # {}
    THEN C13_First(C13_Differing(found, expected)) - 1
    ELSE IF Len(found) > Len(expected) THEN Len(expected)
    ELSE Len(found)

\* C13: check_term of a RecordIntro against a record type.  The result is
\* UnexpectedField(found, expected) with the labels at the first position
\* where the intro's label differs from the type's, else TooManyFieldsFound
\* when the intro has more fields than the type, else
\* NotEnoughFieldsProvided when it has fewer, else Ok; the only other
\* results are the errors of checking a field that comes before that point,
\* and none of them is one of these three errors here.  The type of a later
\* field is the rest closure applied to the value of the field before it:
\* against {x : Universe 0, y : x}, the intro {x = K, y = l} of a literal
\* type K and a literal l is accepted when l is of kind K and rejected with
\* ExpectedSubtype(the type of l, K) otherwise.
C13_RecordIntroLabels ==
    (call.op = "check_term" /\ call.term.tag = "RecordIntro"
        /\ call.ty_term.tag = "RecordType")
        => /\ \/ call.ret = C13_LabelOutcome(C13_IntroLabels(call.term),
                                             C13_TypeLabels(call.ty_term))
              \/ /\ C13_FieldsChecked(C13_IntroLabels(call.term),
                                      C13_TypeLabels(call.ty_term)) > 0
                 /\ IsErr(call.ret)
                 /\ call.ret.err.tag \notin {"UnexpectedField", "TooManyFieldsFound",
                                             "NotEnoughFieldsProvided"}
           /\ IsOk(call.ret)
                => C13_IntroLabels(call.term) = C13_TypeLabels(call.ty_term)
           /\ (/\ call.ty_term = RecordTy
               /\ C13_IntroLabels(call.term) = <<"x", "y">>
               /\ call.term.intro_fields[1][2].tag = "LiteralType"
               /\ call.term.intro_fields[2][2].tag = "LiteralIntro")
                => call.ret =
                    IF call.term.intro_fields[2][2].lit.kind
                            = call.term.intro_fields[1][2].lit_ty
                    THEN Ok(Unit)
                    ELSE Err(ExpectedSubtype(
                            VLiteralType(call.term.intro_fields[2][2].lit.kind),
                            VLiteralType(call.term.intro_fields[1][2].lit_ty)))

\* {x = Bool, x = Bool} against {x : Universe 0, y : x}: the first field was
\* checked and the second label was rejected with UnexpectedField(x, y).
C13_Witness ==
    /\ call.op = "check_term"
    /\ call.term = RecordIntro(<< <<"x", LiteralType("Bool")>>,
                                  <<"x", LiteralType("Bool")>> >>)
    /\ call.ty_term = RecordTy
    /\ call.ret = Err(UnexpectedField("x", "y"))

\* The type is a value of {x : Universe 0, y : x}.
C14_IsRecordTy(ty) ==
    /\ ty.tag = "RecordTypeExtend"
    /\ ty.label = "x"
    /\ ty.vty = VUniverse(0)
    /\ ty.rest_closure.term = RecordType(<< <<"", "y", Var(0)>> >>)

\* The value of r.x for the record value r: the stuck projection when r is
\* neutral, the field's value when r is a record intro.
C14_ProjectX(r) ==
    IF r.tag = "Neutral" THEN VNeutral(NRecordProj(r.neutral, "x"))
    ELSE r.vfields[1][2]

\* C14: synth_term(RecordElim(r, l)) for a variable r.  When r does not
\* synthesize the result is r's error; when the type of r is not a record
\* type the result is NoFieldInType(l); and when r : {x : Universe 0, y : x}
\* the type of r.x is Universe 0, the type of r.y is the value of r.x (the
\* stuck projection of x from r when r is a parameter, the value of the
\* field x when r is a defined record) and every other label gives
\* NoFieldInType(l).
C14_RecordElimWalk ==
    (call.op = "synth_term" /\ call.term.tag = "RecordElim"
        /\ call.term.record.tag = "Var")
        => LET index == call.term.record.index
               label == call.term.label
           IN  IF index >= Len(ctx.tys) THEN call.ret = Err(UnboundVariable)
               ELSE IF ctx.tys[index + 1].tag \notin {"RecordTypeExtend",
                                                      "RecordTypeEmpty"}
               THEN call.ret = Err(NoFieldInType(label))
               ELSE C14_IsRecordTy(ctx.tys[index + 1])
                    => call.ret =
                        CASE label = "x" -> Ok(VUniverse(0))
                          [] label = "y" -> Ok(C14_ProjectX(ctx.values[index + 1]))
                          [] OTHER -> Err(NoFieldInType(label))

\* r.y for the parameter r : {x : Universe 0, y : x} bound last, at level
\* 0: its type is the stuck projection r.x.
C14_Witness ==
    /\ call.op = "synth_term"
    /\ call.term = RecordElim(Var(0), "y")
    /\ ctx.values = <<ValueVar(0)>>
    /\ C14_IsRecordTy(ctx.tys[1])
    /\ call.ret = Ok(VNeutral(NRecordProj(NVar(0), "x")))

\* C15: primitives.  check_term(Prim(p), T) returns Ok for every expected
\* type T when p is registered in the context's primitive environment and
\* UnknownPrim(p) when it is not; synth_term(Prim(p)) returns
\* AmbiguousTerm(Prim(p)) when p is registered and UnknownPrim(p) when it is
\* not.
C15_PrimExistence ==
    /\ (call.op = "check_term" /\ call.term.tag = "Prim")
        => call.ret = IF call.term.name \in ctx.prims
                      THEN Ok(Unit)
                      ELSE Err(UnknownPrim(call.term.name))
    /\ (call.op = "synth_term" /\ call.term.tag = "Prim")
        => call.ret = IF call.term.name \in ctx.prims
                      THEN Err(AmbiguousTerm(call.term))
                      ELSE Err(UnknownPrim(call.term.name))

\* A registered primitive was accepted against the type Bool -> Bool.
C15_Witness ==
    /\ call.op = "check_term"
    /\ call.term = Prim("u8-add")
    /\ call.ty_term = FunTyExplicit
    /\ ctx.prims = PrimEnvDefault
    /\ call.ret = Ok(Unit)

\* C16: variables.  In a context of n entries synth_term(Var(i)) returns
\* the type stored for index i when i < n and UnboundVariable when i >= n;
\* index 0 is the entry added last, so that right after add_param or
\* add_defn of a type, Var(0) synthesizes that type and Var(i + 1)
\* synthesizes what Var(i) synthesized before.
C16_VarLookup ==
    [][/\ (call'.op = "synth_term" /\ call'.term.tag = "Var")
            => call'.ret = IF call'.term.index < Len(ctx'.tys)
                           THEN Ok(ctx'.tys[call'.term.index + 1])
                           ELSE Err(UnboundVariable)
       /\ call'.op \in {"add_param", "add_defn"}
            => /\ synth_term(ctx', Var(0)) = Ok(call'.ty)
               /\ Len(ctx'.tys) = Len(ctx.tys) + 1
               /\ \A i \in 0..Len(ctx.tys) :
                    synth_term(ctx', Var(i + 1)) = synth_term(ctx, Var(i))]_vars

\* Var(1) in a context where a parameter of type Bool -> Bool was bound
\* and then a record was defined: it synthesized the function type.
C16_Witness ==
    /\ call.op = "synth_term"
    /\ call.term = Var(1)
    /\ Len(ctx.tys) = 2
    /\ ctx.tys[1].tag = "RecordTypeExtend"
    /\ ctx.tys[2].tag = "FunType"
    /\ call.ret = Ok(ctx.tys[2])

(***************************************************************************)
(* Properties of error propagation, under SpecModule                       *)
(***************************************************************************)
\* The steps of a module item or a Let binding in the context c, in their
\* order: the first error among the synthesis of the declared type, the
\* test that it is a universe, its evaluation, the check of the definition
\* and its evaluation; with no error, the context with the definition
\* added.
C17_Binding(c, def, def_ty) ==
    LET ty == synth_term(c, def_ty)
        ty_value == context_eval(c, def_ty)
        checked == check_term(c, def, ty_value.val)
        def_value == context_eval(c, def)
    IN  IF IsErr(ty) THEN ty
        ELSE IF ty.val.tag # "Universe" THEN Err(ExpectedUniverse(ty.val))
        ELSE IF IsErr(ty_value) THEN Err(Nbe(ty_value.err))
        ELSE IF IsErr(checked) THEN checked
        ELSE IF IsErr(def_value) THEN Err(Nbe(def_value.err))
        ELSE Ok(add_defn(c, def_value.val, ty_value.val))

RECURSIVE C17_FirstError(_, _)
\* The error of the first item that fails, each item taken in the context
\* of the items before it; Ok when no item fails.
C17_FirstError(c, items) ==
    IF items = <<>> THEN Ok(Unit)
    ELSE IF IsErr(C17_Binding(c, Head(items)[3], Head(items)[2]))
    THEN C17_Binding(c, Head(items)[3], Head(items)[2])
    ELSE C17_FirstError(C17_Binding(c, Head(items)[3], Head(items)[2]).val, Tail(items))

\* C17: error propagation is strict.  check_module returns the error of the
\* first step that fails in the first item that fails, whatever the items
\* after it are: a module with a failing prefix returns what the prefix
\* returns, and Ok(()) is returned only when every item succeeded.
\* check_term and synth_term of a Let return the first error of the
\* binding's steps, whatever the body is, and otherwise what the body
\* returns.  An evaluation error, here of the body closure of the expected
\* function type, is returned as Nbe(that error), whatever the body of the
\* FunIntro is.
C17_FirstErrorReturned ==
    /\ call.op = "check_module"
        => /\ call.ret = C17_FirstError(ctx, call.module)
           /\ \A k \in 1..Len(call.module) :
                IsErr(check_module(ctx, SubSeq(call.module, 1, k)))
                    => call.ret = check_module(ctx, SubSeq(call.module, 1, k))
           /\ call.ret = Ok(Unit) \/ IsErr(call.ret)
    /\ (call.op = "check_term" /\ call.term.tag = "Let")
        => call.ret =
            IF IsErr(C17_Binding(ctx, call.term.def, call.term.def_ty))
            THEN C17_Binding(ctx, call.term.def, call.term.def_ty)
            ELSE check_term(C17_Binding(ctx, call.term.def, call.term.def_ty).val,
                            call.term.body, call.expected_ty)
    /\ (call.op = "synth_term" /\ call.term.tag = "Let")
        => call.ret =
            IF IsErr(C17_Binding(ctx, call.term.def, call.term.def_ty))
            THEN C17_Binding(ctx, call.term.def, call.term.def_ty)
            ELSE synth_term(C17_Binding(ctx, call.term.def, call.term.def_ty).val,
                            call.term.body)
    /\ (call.op = "check_term" /\ call.expected_ty = MalformedFunTy)
        => /\ IsErr(do_closure_app(ctx.prims, MalformedFunTy.body_closure,
                                   ValueVar(Len(ctx.values))))
           /\ call.ret = Err(Nbe(do_closure_app(ctx.prims, MalformedFunTy.body_closure,
                                                ValueVar(Len(ctx.values))).err))

\* The module [a, d, c] in the empty context: a checks, d fails with
\* ExpectedSubtype(Bool, Universe 0) and that is the result; c, which would
\* fail with ExpectedUniverse, is not reached.
C17_Witness ==
    /\ call.op = "check_module"
    /\ call.module = << <<"a", Universe(0), LiteralType("Bool")>>,
                        <<"d", Universe(0), LiteralIntro(LitBool(TRUE))>>,
                        <<"c", LiteralIntro(LitBool(TRUE)), Universe(0)>> >>
    /\ ctx = ContextNew
    /\ call.ret = Err(ExpectedSubtype(VLiteralType("Bool"), VUniverse(0)))


(***************************************************************************)
(* Properties of normalization by evaluation, under SpecNbe                *)
(***************************************************************************)
\* C18: normalization is idempotent.  The normal form of a validated term
\* exists, and normalizing it again in the same context gives the same
\* term.
C18_NormalizationIdempotent ==
    call.op = "normalize" =>
        /\ IsOk(call.ret)
        /\ normalize(ctx.prims, ctx.values, call.ret.val) = call.ret

\* A validated term that applies a parameter f to a redex: its normal form
\* is f applied to a literal, and is a fixed point.
C18_Witness ==
    /\ call.op = "normalize"
    /\ call.term.tag = "Let"
    /\ call.ret = Ok(FunElim(Var(0), Explicit, LiteralIntro(LitBool(TRUE))))
    /\ ctx.values[1] = ValueVar(EnvLevel(ctx.values) - 1)
    /\ normalize(ctx.prims, ctx.values, call.ret.val) = call.ret

C19_Holds(result) == result = Ok(Unit)

\* C19: subtyping is a preorder.  Every type is a subtype of itself, and
\* when A is a subtype of B and B of C, A is a subtype of C.
C19_SubtypePreorder ==
    call.op = "expect_subtype" =>
        /\ C19_Holds(call.ret.aa)
        /\ (C19_Holds(call.ret.ab) /\ C19_Holds(call.ret.bc)) => C19_Holds(call.ret.ac)

\* A chain of three different function types, the domains descending and
\* the codomains ascending, so that the two ends are compared by the
\* contravariant rule.
C19_Witness ==
    /\ call.op = "expect_subtype"
    /\ call.ty_terms = <<FunType(Explicit, Universe(1), Universe(0)),
                         FunType(Explicit, Universe(0), Universe(0)),
                         FunType(Explicit, Universe(0), Universe(1))>>
    /\ C19_Holds(call.ret.aa)
    /\ C19_Holds(call.ret.ab)
    /\ C19_Holds(call.ret.bc)
    /\ C19_Holds(call.ret.ac)
    /\ ~C19_Holds(expect_subtype(ctx, call.tys[3], call.tys[1]))

\* C20: eta for functions.  At the type of f, the value of the
\* eta-expansion of f and the value of f are convertible: both read back to
\* the same function intro of the mode of the type.
C20_EtaForFunctions ==
    call.op = "check_equal_at" =>
        LET depth == EnvLevel(ctx.values)
            fun == read_back_typed(ctx.prims, depth, call.ty, call.fun)
            eta == read_back_typed(ctx.prims, depth, call.ty, call.eta)
        IN  /\ call.ret = Ok(TRUE)
            /\ IsOk(fun)
            /\ fun = eta
            /\ fun.val.tag = "FunIntro"
            /\ fun.val.mode = call.ty.mode

\* f is a parameter, so its value is a variable and the value of its
\* eta-expansion is a closure: the two differ as values and in structural
\* readback, and are convertible at the function type.
C20_Witness ==
    /\ call.op = "check_equal_at"
    /\ call.fun.tag = "Neutral"
    /\ call.eta.tag = "FunIntro"
    /\ read_back(ctx.prims, EnvLevel(ctx.values), call.fun)
            # read_back(ctx.prims, EnvLevel(ctx.values), call.eta)
    /\ call.ret = Ok(TRUE)


(***************************************************************************)
(* Properties of the evaluator, under SpecEval                             *)
(***************************************************************************)
C21_Matching(clauses, lit) == {i \in 1..Len(clauses) : clauses[i][1] = lit}

\* C21: a literal elimination whose scrutinee is a literal evaluates to the
\* value of the body of the first clause whose payload equals the literal,
\* and to the value of the default body when no clause does; one whose
\* scrutinee is neutral evaluates to a stuck literal elimination of that
\* neutral.
C21_LiteralElimEval ==
    call.op = "eval" =>
        LET scrutinee == context_eval(ctx, call.term.scrutinee)
            clauses == call.term.clauses
        IN  /\ (IsOk(scrutinee) /\ scrutinee.val.tag = "LiteralIntro") =>
                LET matching == C21_Matching(clauses, scrutinee.val.lit)
                IN  call.ret =
                        context_eval(ctx,
                            IF matching = {} THEN call.term.default_body
                            ELSE clauses[CHOOSE i \in matching :
                                            \A j \in matching : i <= j][2])
            /\ (IsOk(scrutinee) /\ scrutinee.val.tag = "Neutral") =>
                /\ IsOk(call.ret)
                /\ call.ret.val.tag = "Neutral"
                /\ call.ret.val.neutral.tag = "NLiteralElim"
                /\ call.ret.val.neutral.head = scrutinee.val.neutral

\* LiteralElim(true, [(false, 0), (true, 1)], 2) has evaluated to 1.
C21_Witness ==
    /\ call.op = "eval"
    /\ call.term = BoolCase(LiteralIntro(LitBool(TRUE)))
    /\ call.ret = Ok(VLiteralIntro(LitU8(1)))


(***************************************************************************)
(* Properties of check_module's context, under SpecModule                  *)
(***************************************************************************)
RECURSIVE C22_Extended(_, _, _)
\* The context c with the values and the types of the first k items at the
\* front, item k front-most, each evaluated in the context of the items
\* before it.
C22_Extended(c, items, k) ==
    IF k = 0 THEN c
    ELSE LET before == C22_Extended(c, items, k - 1)
         IN  [before EXCEPT
                !.values = <<context_eval(before, items[k][3]).val>> \o @,
                !.tys = <<context_eval(before, items[k][2]).val>> \o @]

\* The item's declared type synthesizes a universe and its term checks
\* against the value of the type, in the context c.
C22_ItemChecks(c, item) ==
    /\ IsOk(synth_universe(c, item[2]))
    /\ IsOk(context_eval(c, item[2]))
    /\ check_term(c, item[3], context_eval(c, item[2]).val) = Ok(Unit)
    /\ IsOk(context_eval(c, item[3]))

\* The items up to the first that does not check in the context of the
\* items before it.
C22_Reached(c, items) ==
    {k \in 1..Len(items) :
        \A j \in 1..(k - 1) : C22_ItemChecks(C22_Extended(c, items, j - 1), items[j])}

\* The error of the first of the item's steps that fails in the context c:
\* the declared type, then the term.
C22_ItemError(c, item) ==
    IF IsErr(synth_universe(c, item[2])) THEN synth_universe(c, item[2])
    ELSE IF IsErr(context_eval(c, item[2])) THEN FromNbe(context_eval(c, item[2]))
    ELSE IF IsErr(check_term(c, item[3], context_eval(c, item[2]).val))
    THEN check_term(c, item[3], context_eval(c, item[2]).val)
    ELSE FromNbe(context_eval(c, item[3]))

\* C22: check_module takes the items in order.  Item k is checked in the
\* caller's context extended with exactly the values and types of the items
\* before it, the one just before it front-most; the module is accepted
\* exactly when every item checks so, and otherwise the result is the
\* error of the first item that does not, the items after it not being
\* looked at.  The caller's context is the same after the call, accepted
\* or not.
C22_ItemsInOrder ==
    /\ [](call.op = "check_module" =>
            /\ call.ret = Ok(Unit) <=>
                    \A k \in 1..Len(call.module) :
                        C22_ItemChecks(C22_Extended(ctx, call.module, k - 1),
                                       call.module[k])
            /\ IsErr(call.ret) =>
                    \E k \in C22_Reached(ctx, call.module) :
                        /\ \A j \in C22_Reached(ctx, call.module) : j <= k
                        /\ call.ret = C22_ItemError(
                                          C22_Extended(ctx, call.module, k - 1),
                                          call.module[k]))
    /\ [][call'.op = "check_module" => ctx' = ctx]_vars

\* The module [u, a, b] has been accepted in the empty context, b : a being
\* checked with a front-most and u behind it; with a and u exchanged it is
\* rejected, and b alone is rejected.
C22_Witness ==
    /\ call.op = "check_module"
    /\ ctx = ContextNew
    /\ call.module = << <<"u", Universe(0), LiteralType("U8")>>,
                        <<"a", Universe(0), LiteralType("Bool")>>,
                        <<"b", Var(0), LiteralIntro(LitBool(TRUE))>> >>
    /\ call.ret = Ok(Unit)
    /\ C22_Extended(ctx, call.module, 2).tys = <<VUniverse(0), VUniverse(0)>>
    /\ C22_Extended(ctx, call.module, 2).values
            = <<VLiteralType("Bool"), VLiteralType("U8")>>
    /\ IsErr(check_module(ctx, <<call.module[2], call.module[1], call.module[3]>>))
    /\ IsErr(check_module(ctx, <<call.module[3]>>))


(***************************************************************************)
(* Properties of the lexer, under SpecLexerFair and SpecLexer              *)
(***************************************************************************)
\* The iterator has returned None.
LexEnded == lexed # <<>> /\ lexed[Len(lexed)] = None

\* The positions of the tokens among what the iterator has returned.
LexTokens == {i \in 1..Len(lexed) : lexed[i] # None /\ lexed[i].some.tag = "Ok"}

\* C23: every token's slice is the file's contents between the start and
\* the end of its span; the spans are not empty, lie in the file, and each
\* begins at or after the end of the one before; no token begins with
\* whitespace, and between two tokens returned one after the other there is
\* only whitespace; None is returned last, when the input is consumed, and
\* it is returned after finitely many calls.
C23_TokensMatchSource ==
    /\ [](lexer # None =>
            /\ \A i \in LexTokens :
                /\ lexed[i].some.val.span.source = lexer.file.id
                /\ lexed[i].some.val.span.start < lexed[i].some.val.span.end
                /\ lexed[i].some.val.span.end <= Len(lexer.file.contents)
                /\ lexed[i].some.val.slice =
                        SubSeq(lexer.file.contents, lexed[i].some.val.span.start + 1,
                               lexed[i].some.val.span.end)
                /\ lexer.file.contents[lexed[i].some.val.span.start + 1] \notin is_whitespace
            /\ \A i \in LexTokens, j \in LexTokens :
                i < j => lexed[i].some.val.span.end <= lexed[j].some.val.span.start
            /\ \A i \in LexTokens :
                (i + 1) \in LexTokens =>
                    \A byte \in lexed[i].some.val.span.end
                                ..(lexed[i + 1].some.val.span.start - 1) :
                        lexer.file.contents[byte + 1] \in is_whitespace
            /\ \A i \in 1..Len(lexed) : lexed[i] = None => i = Len(lexed)
            /\ LexEnded => lookahead(lexer) = None)
    /\ <>LexEnded

\* Two tokens with whitespace between them have been returned, and then
\* None.
C23_Witness ==
    /\ lexer # None
    /\ Len(lexed) = 3
    /\ LexTokens = {1, 2}
    /\ lexed[1].some.val.span.end < lexed[2].some.val.span.start
    /\ LexEnded

\* What was returned for the text that begins at the byte start: the token
\* or the error whose span begins there.
C24_At(start) ==
    {i \in 1..Len(lexed) :
        /\ lexed[i] # None
        /\ IF lexed[i].some.tag = "Ok" THEN lexed[i].some.val.span.start = start
           ELSE lexed[i].some.err.label.start = start}

\* The digits a radix letter announces.
C24_Digits(letter) ==
    IF letter = "b" THEN is_bin_digit
    ELSE IF letter = "o" THEN is_oct_digit
    ELSE is_hex_digit

C24_Unterminated ==
    {<<"unterminated binary literal">>, <<"unterminated octal literal">>,
     <<"unterminated hexadecimal literal">>}

\* The bytes where a number begins with a radix prefix that no digit of
\* the radix follows.
C24_BarePrefixes ==
    {start \in 0..(Len(lexer.file.contents) - 2) :
        /\ lexer.file.contents[start + 1] = "0"
        /\ lexer.file.contents[start + 2] \in {"b", "o", "x"}
        /\ \/ start + 2 = Len(lexer.file.contents)
           \/ lexer.file.contents[start + 3]
                \notin C24_Digits(lexer.file.contents[start + 2])}

\* C24, as claimed: what is returned for a radix prefix that no digit of the
\* radix follows is an unterminated-literal error, and an IntLiteral that
\* begins with a radix prefix has a digit of the radix after it.
C24_RadixPrefixNeedsDigit ==
    lexer # None =>
        /\ \A start \in C24_BarePrefixes : \A i \in C24_At(start) :
            /\ lexed[i].some.tag = "Err"
            /\ lexed[i].some.err.message \in C24_Unterminated
        /\ \A i \in LexTokens :
            (/\ lexed[i].some.val.tag = "IntLiteral"
             /\ Len(lexed[i].some.val.slice) >= 2
             /\ lexed[i].some.val.slice[2] \in {"b", "o", "x"})
            => /\ Len(lexed[i].some.val.slice) >= 3
               /\ lexed[i].some.val.slice[3] \in C24_Digits(lexed[i].some.val.slice[2])

\* C24, as the code is: what is returned for a radix prefix that no digit
\* of the radix follows is the IntLiteral of the two characters of the
\* prefix, and no unterminated binary, octal or hexadecimal literal is ever
\* reported.
C24_BarePrefixIsIntLiteral ==
    lexer # None =>
        /\ \A start \in C24_BarePrefixes : \A i \in C24_At(start) :
            /\ lexed[i].some.tag = "Ok"
            /\ lexed[i].some.val.tag = "IntLiteral"
            /\ lexed[i].some.val.slice
                    = SubSeq(lexer.file.contents, start + 1, start + 2)
        /\ \A i \in 1..Len(lexed) :
            (lexed[i] # None /\ lexed[i].some.tag = "Err")
                => lexed[i].some.err.message \notin C24_Unterminated

\* The source 0b has been lexed: an IntLiteral of the slice 0b, then None.
C24_Witness ==
    /\ lexer # None
    /\ lexer.file.contents = <<"0", "b">>
    /\ lexed = <<Some(Ok(Token("IntLiteral", <<"0", "b">>, Span(0, 0, 2)))), None>>

(***************************************************************************)
(* Properties of the files, under SpecFiles                                *)
(***************************************************************************)
\* Files::byte_index of the line and the column of the location returned.
C25_RoundTrip ==
    byte_index(files, call.file_id, call.ret.some.line, call.ret.some.column)

\* C25, as claimed: whenever location returns a location for a byte,
\* byte_index of its line and column returns the byte.
C25_LocationByteIndexInverse ==
    (call.op = "location" /\ call.ret # None) => C25_RoundTrip = Some(call.byte)

\* C25, as the code is: byte_index of the line and column of the location
\* of a byte returns the byte when the location is on line 0, and the byte
\* after it when the location is on a later line; location puts a line feed
\* at column 0 of the line after it.
C25_InverseOnFirstLineOnly ==
    (call.op = "location" /\ call.ret # None) =>
        /\ call.ret.some.line = 0 => C25_RoundTrip = Some(call.byte)
        /\ call.ret.some.line > 0 => C25_RoundTrip = Some(call.byte + 1)
        /\ files_index(files, call.file_id).contents[call.byte + 1] = "\n"
            => call.ret.some.column = 0 /\ call.ret.some.line > 0

\* In the file a, line feed, a, line feed, the byte 2, the first of the
\* second line, is located at line 1, column 1, and byte_index of line 1,
\* column 1 is 3.
C25_Witness ==
    /\ call.op = "location"
    /\ files_index(files, call.file_id).contents = <<"a", "\n", "a", "\n">>
    /\ call.byte = 2
    /\ call.ret = Some(Location(2, 1, 1))
    /\ C25_RoundTrip = Some(3)

====
